---------------------------- MODULE Spec2Model ----------------------------
(***************************************************************************)
(* A model of lux-rs: the scanner (src/src/scanner.rs), the recursive      *)
(* descent parser (src/src/parser.rs), the tree-walking interpreter        *)
(* (src/src/interpreter.rs, src/src/environment.rs), the reporter          *)
(* (src/src/reporter.rs) and the driver (src/src/main.rs).                 *)
(*                                                                         *)
(* Conventions.  A source text is a Rust &str; the scanner indexes its     *)
(* UTF-8 bytes, so `source` is a sequence of bytes.  A byte is written as  *)
(* the one-character string of its ASCII character, and the two bytes of   *)
(* U+00E9 as "xC3" and "xA9".  Cursors (`start`, `current`) are 0-based as *)
(* in the code; byte i of the source is source[i + 1].  A panic of the     *)
(* Rust program (an index out of bounds) is the field `panicked`.          *)
(* Numbers (f64) are modelled as exact rationals [n, d]; d = 0 stands for  *)
(* the IEEE-754 infinities (n # 0) and NaN (n = 0).  Rounding is not       *)
(* modelled.                                                               *)
(***************************************************************************)
EXTENDS Integers, Sequences, FiniteSets, TLC

VARIABLES
    pc,           \* where the driver is: "idle", "scan", "parse", "interpret", "panicked"
    scanner,      \* the Scanner of the current run (scanner.rs:4-11)
    parser,       \* the Parser of the current run (parser.rs:35-39)
    statements,   \* the Vec<Stmt> built by Parser::parse (parser.rs:287)
    interpreter,  \* the Interpreter, holding the Environment (interpreter.rs:10-12)
    stmtIdx,      \* position of the for loop of Interpreter::interpret (interpreter.rs:21)
    result,       \* what interpret returned to Lux::run (main.rs:44)
    stdout,       \* lines written by print statements and by Lux::run since the last prompt
    runs          \* number of calls of Lux::run so far

vars == <<pc, scanner, parser, statements, interpreter, stmtIdx, result, stdout, runs>>

-----------------------------------------------------------------------------
(* Bounds of the model *)

MaxSrcLen == 4
MaxStmts == 3
MaxRuns == 2
MaxOps == 3
MaxLitLen == 2
MaxDepth == 3
MaxLexLen == 4
MaxNumLen == 5
MaxWords == 1
MaxTokens == 4
MaxDecls == 3

-----------------------------------------------------------------------------
(* Characters and bytes *)

QUOTE == "\""
NEWLINE == "\n"
TAB == "\t"
CR == "\r"
EACUTE == "U+00E9"

Digits == {"0", "1", "2", "3", "4", "5", "6", "7", "8", "9"}
Letters == {"a", "b", "c", "d", "e", "f", "g", "h", "i", "j", "k", "l", "m",
            "n", "o", "p", "q", "r", "s", "t", "u", "v", "w", "x", "y", "z",
            "A", "B", "C", "D", "E", "F", "G", "H", "I", "J", "K", "L", "M",
            "N", "O", "P", "Q", "R", "S", "T", "U", "V", "W", "X", "Y", "Z"}

\* str::as_bytes: the UTF-8 encoding of one character
Utf8(ch) == IF ch = EACUTE THEN <<"xC3", "xA9">> ELSE <<ch>>

RECURSIVE Utf8Text(_)
Utf8Text(text) ==
    IF text = <<>> THEN <<>> ELSE Utf8(Head(text)) \o Utf8Text(Tail(text))

\* `byte as char`: a u8 cast to the char with that code point
AsChar(b) ==
    CASE b = "xC3" -> "U+00C3"
      [] b = "xA9" -> "U+00A9"
      [] OTHER -> b

\* char::is_ascii_digit / char::is_ascii_alphabetic
is_ascii_digit(c) == c \in Digits
is_ascii_alphabetic(c) == c \in Letters

-----------------------------------------------------------------------------
(* Numbers: f64 as exact rationals *)

RECURSIVE Gcd(_, _)
Gcd(a, b) == IF b = 0 THEN a ELSE Gcd(b, a % b)

Abs(x) == IF x < 0 THEN -x ELSE x

Rat(n, d) ==
    IF d = 0 THEN [n |-> IF n > 0 THEN 1 ELSE IF n < 0 THEN -1 ELSE 0, d |-> 0]
    ELSE LET g == Gcd(Abs(n), Abs(d))
             s == IF d < 0 THEN -1 ELSE 1
         IN  [n |-> (s * n) \div g, d |-> (s * d) \div g]

DigitValue(c) == CHOOSE v \in 0..9 : ToString(v) = c

RECURSIVE DigitsValue(_)
DigitsValue(ds) ==
    IF ds = <<>> THEN 0
    ELSE DigitsValue(SubSeq(ds, 1, Len(ds) - 1)) * 10 + DigitValue(ds[Len(ds)])

RECURSIVE Pow10(_)
Pow10(k) == IF k = 0 THEN 1 ELSE 10 * Pow10(k - 1)

\* str::parse::<f64> on a lexeme of the form digits or digits "." digits
ParseF64(lexeme) ==
    LET dots == {i \in 1..Len(lexeme) : lexeme[i] = "."}
    IN  IF dots = {} THEN Rat(DigitsValue(lexeme), 1)
        ELSE LET p == CHOOSE i \in dots : TRUE
                 whole == SubSeq(lexeme, 1, p - 1)
                 frac == SubSeq(lexeme, p + 1, Len(lexeme))
             IN  Rat(DigitsValue(whole) * Pow10(Len(frac)) + DigitsValue(frac),
                     Pow10(Len(frac)))

-----------------------------------------------------------------------------
(* Tokens (token.rs) *)

NoNumber == [n |-> 0, d |-> 1]

\* a TokenType without payload
TT(kind) == [kind |-> kind, str |-> <<>>, num |-> NoNumber]
\* TokenType::String(String) and TokenType::Number(f64)
TTString(s) == [kind |-> "String", str |-> s, num |-> NoNumber]
TTNumber(v) == [kind |-> "Number", str |-> <<>>, num |-> v]

Token(token_type, lexeme, line) ==
    [token_type |-> token_type, lexeme |-> lexeme, line |-> line]

-----------------------------------------------------------------------------
(* Reporter (reporter.rs) *)

StdoutReporterDefault == [had_error |-> FALSE, printed |-> <<>>]

report(rep, line, error_where, message) ==
    [had_error |-> TRUE,
     printed |-> Append(rep.printed,
                        [line |-> line, error_where |-> error_where, message |-> message])]

scanner_error(rep, line, message) == report(rep, line, <<"">>, message)

parser_error(rep, token, message) ==
    IF token.token_type.kind = "EndOfFile"
    THEN report(rep, token.line, <<" at end">>, message)
    ELSE report(rep, token.line, <<"at '">> \o token.lexeme \o <<"'">>, message)

-----------------------------------------------------------------------------
(* Scanner (scanner.rs) *)

ScannerNew(source, reporter) ==
    [source |-> source, tokens |-> <<>>, start |-> 0, current |-> 0, line |-> 0,
     reporter |-> reporter, panicked |-> FALSE]

ScannerIsAtEnd(s) == s.current >= Len(s.source)

\* self.source.as_bytes()[i] as char
CharAt(s, i) == AsChar(s.source[i + 1])

\* Scanner::advance: indexing past the end panics
ScannerAdvance(s) ==
    IF s.current >= Len(s.source) THEN [s EXCEPT !.panicked = TRUE]
    ELSE [s EXCEPT !.current = @ + 1]

match_char(s, c) == ~ScannerIsAtEnd(s) /\ CharAt(s, s.current) = c

ScannerPeek(s) == IF ScannerIsAtEnd(s) THEN "None" ELSE CharAt(s, s.current)

peek_next(s) ==
    IF s.current + 1 < Len(s.source) THEN CharAt(s, s.current + 1) ELSE "None"

\* &self.source[a..b]
Slice(s, a, b) == SubSeq(s.source, a + 1, b)

add_token(s, token_type) ==
    [s EXCEPT !.tokens = Append(@, Token(token_type, Slice(s, s.start, s.current), s.line))]

\* the while-let loop of Scanner::string
RECURSIVE StringLoop(_)
StringLoop(s) ==
    LET c == ScannerPeek(s)
    IN  IF c = "None" \/ c = QUOTE THEN s
        ELSE IF c = "n" THEN StringLoop(ScannerAdvance([s EXCEPT !.line = @ + 1]))
        ELSE StringLoop(ScannerAdvance(s))

\* mutant of ScannerString: the value of the token keeps the two quotes
ScannerString_KeepsQuotes(s) ==
    LET s1 == StringLoop(s)
        s2 == IF ScannerIsAtEnd(s1)
              THEN [s1 EXCEPT !.reporter = scanner_error(@, s1.line, <<"string not closed">>)]
              ELSE s1
        s3 == ScannerAdvance(s2)
    IN  IF s3.panicked THEN s3
        ELSE add_token(s3, TTString(Slice(s3, s3.start, s3.current)))

ScannerString(s) ==
    LET s1 == StringLoop(s)
        s2 == IF ScannerIsAtEnd(s1)
              THEN [s1 EXCEPT !.reporter = scanner_error(@, s1.line, <<"string not closed">>)]
              ELSE s1
        s3 == ScannerAdvance(s2)
    IN  IF s3.panicked THEN s3
        ELSE add_token(s3, TTString(Slice(s3, s3.start + 1, s3.current - 1)))

is_alphanumeric(c) == is_ascii_digit(c) \/ is_ascii_alphabetic(c) \/ c = "_"

RECURSIVE DigitLoop(_)
DigitLoop(s) ==
    IF is_ascii_digit(ScannerPeek(s)) THEN DigitLoop(ScannerAdvance(s)) ELSE s

\* mutant of ScannerNumber: a `.` after the digits is taken without a look at what follows
ScannerNumber_TakesTrailingDot(s) ==
    LET s1 == DigitLoop(s)
        s2 == IF ScannerPeek(s1) = "." THEN DigitLoop(ScannerAdvance(s1)) ELSE s1
    IN  add_token(s2, TTNumber(ParseF64(Slice(s2, s2.start, s2.current))))

ScannerNumber(s) ==
    LET s1 == DigitLoop(s)
        s2 == IF ScannerPeek(s1) = "." /\ is_ascii_digit(peek_next(s1))
              THEN DigitLoop(ScannerAdvance(s1))
              ELSE s1
    IN  add_token(s2, TTNumber(ParseF64(Slice(s2, s2.start, s2.current))))

\* mutant of IdentLoop: the run stops as soon as the text so far is a keyword
RECURSIVE IdentLoop_StopsAtKeyword(_)
IdentLoop_StopsAtKeyword(s) ==
    IF Slice(s, s.start, s.current) \in
         {<<"v", "a", "r">>, <<"p", "r", "i", "n", "t">>, <<"o", "r">>, <<"i", "f">>}
    THEN s
    ELSE IF is_alphanumeric(ScannerPeek(s)) THEN IdentLoop_StopsAtKeyword(ScannerAdvance(s))
    ELSE s

RECURSIVE IdentLoop(_)
IdentLoop(s) ==
    IF is_alphanumeric(ScannerPeek(s)) THEN IdentLoop(ScannerAdvance(s)) ELSE s

\* the keyword table of Scanner::identifier
KeywordKind(lexeme) ==
    CASE lexeme = <<"a", "n", "d">> -> "And"
      [] lexeme = <<"c", "l", "a", "s", "s">> -> "Class"
      [] lexeme = <<"e", "l", "s", "e">> -> "Else"
      [] lexeme = <<"f", "a", "l", "s", "e">> -> "False"
      [] lexeme = <<"f", "o", "r">> -> "For"
      [] lexeme = <<"f", "u", "n">> -> "Fun"
      [] lexeme = <<"i", "f">> -> "If"
      [] lexeme = <<"n", "i", "l">> -> "Nil"
      [] lexeme = <<"o", "r">> -> "Or"
      [] lexeme = <<"p", "r", "i", "n", "t">> -> "Print"
      [] lexeme = <<"r", "e", "t", "u", "r", "n">> -> "Return"
      [] lexeme = <<"s", "u", "p", "e", "r">> -> "Super"
      [] lexeme = <<"t", "h", "i", "s">> -> "This"
      [] lexeme = <<"t", "r", "u", "e">> -> "True"
      [] lexeme = <<"v", "a", "r">> -> "Var"
      [] lexeme = <<"w", "h", "i", "l", "e">> -> "While"
      [] OTHER -> "Identifier"

ScannerIdentifier(s) ==
    LET s1 == IdentLoop(s)
    IN  add_token(s1, TT(KeywordKind(Slice(s1, s1.start, s1.current))))

\* mutant of OneOrTwo: no lookahead, the one-character token is always emitted
OneOrTwo_NoLookahead(s, two, one) == add_token(s, TT(one))

\* the `if self.match_char('=')` arms of scan_token
OneOrTwo(s, two, one) ==
    IF match_char(s, "=") THEN add_token(ScannerAdvance(s), TT(two))
    ELSE add_token(s, TT(one))

\* mutant of CommentLoop: the comment also consumes the newline that ends it
RECURSIVE CommentLoop_EatsNewline(_)
CommentLoop_EatsNewline(s) ==
    LET c == ScannerPeek(s)
    IN  IF c = "None" THEN s
        ELSE IF c = NEWLINE THEN ScannerAdvance(s)
        ELSE CommentLoop_EatsNewline(ScannerAdvance(s))

\* the comment loop of scan_token
RECURSIVE CommentLoop(_)
CommentLoop(s) ==
    LET c == ScannerPeek(s)
    IN  IF c = "None" \/ c = NEWLINE THEN s ELSE CommentLoop(ScannerAdvance(s))

\* Scanner::scan_token, called with start = current and not at the end
scan_token(s0) ==
    LET c == CharAt(s0, s0.current)
        s == ScannerAdvance(s0)
    IN  CASE c = "(" -> add_token(s, TT("LeftParen"))
          [] c = ")" -> add_token(s, TT("RightParen"))
          [] c = "{" -> add_token(s, TT("LeftBrace"))
          [] c = "}" -> add_token(s, TT("RightBrace"))
          [] c = "," -> add_token(s, TT("Comma"))
          [] c = "." -> add_token(s, TT("Dot"))
          [] c = "-" -> add_token(s, TT("Minus"))
          [] c = "+" -> add_token(s, TT("Plus"))
          [] c = ";" -> add_token(s, TT("Semicolon"))
          [] c = "*" -> add_token(s, TT("Star"))
          [] c = "!" -> OneOrTwo(s, "BangEqual", "Bang")
          [] c = "=" -> OneOrTwo(s, "EqualEqual", "Equal")
          [] c = "<" -> OneOrTwo(s, "LessEqual", "Less")
          [] c = ">" -> OneOrTwo(s, "GreaterEqual", "Greater")
          [] c = "/" -> IF match_char(s, "/") THEN CommentLoop(ScannerAdvance(s))
                        ELSE add_token(s, TT("Slash"))
          [] c = QUOTE -> ScannerString(s)
          [] c \in {" ", TAB, CR} -> s
          [] c = NEWLINE -> [s EXCEPT !.line = @ + 1]
          [] is_ascii_digit(c) -> ScannerNumber(s)
          [] is_ascii_alphabetic(c) \/ c = "_" -> ScannerIdentifier(s)
          [] OTHER ->
               [s EXCEPT !.reporter =
                   scanner_error(@, s.line, <<"encountered unexpected character: ", c>>)]

\* one iteration of the loop of Scanner::scan_tokens
ScanLoopBody(s) == scan_token([s EXCEPT !.start = s.current])

\* the push of the EndOfFile token that ends Scanner::scan_tokens
PushEndOfFile(s) ==
    [s EXCEPT !.tokens = Append(@, Token(TT("EndOfFile"), <<>>, s.line))]

\* Scanner::scan_tokens from the scanner s on: the loop and the final push
RECURSIVE ScanAll(_)
ScanAll(s) ==
    IF s.panicked THEN s
    ELSE IF ScannerIsAtEnd(s) THEN PushEndOfFile(s)
    ELSE ScanAll(ScanLoopBody(s))

-----------------------------------------------------------------------------
(* Values and syntax trees (expressions.rs, statements.rs) *)

\* LiteralValue
ValNil == [kind |-> "Nil", bool |-> FALSE, num |-> NoNumber, str |-> <<>>]
ValBool(b) == [kind |-> "Bool", bool |-> b, num |-> NoNumber, str |-> <<>>]
ValNumber(v) == [kind |-> "Number", bool |-> FALSE, num |-> v, str |-> <<>>]
ValString(s) == [kind |-> "String", bool |-> FALSE, num |-> NoNumber, str |-> s]

\* Expr
ExprLiteral(value) == [node |-> "Literal", value |-> value]
ExprVariable(name) == [node |-> "Variable", name |-> name]
ExprGrouping(expr) == [node |-> "Grouping", expr |-> expr]
ExprUnary(operator, right) == [node |-> "Unary", operator |-> operator, right |-> right]
ExprBinary(left, operator, right) ==
    [node |-> "Binary", left |-> left, operator |-> operator, right |-> right]

NoToken == Token(TT("None"), <<>>, 0)

\* Stmt; initializer is an Option<Expr>: <<>> is None, <<e>> is Some(e)
StmtPrint(expr) == [stmt |-> "Print", expr |-> expr, name |-> NoToken, initializer |-> <<>>]
StmtExpr(expr) == [stmt |-> "Expr", expr |-> expr, name |-> NoToken, initializer |-> <<>>]
StmtVar(name, initializer) ==
    [stmt |-> "Var", expr |-> ExprLiteral(ValNil), name |-> name, initializer |-> initializer]

-----------------------------------------------------------------------------
(* Parser (parser.rs).  The productions take the token vector and the     *)
(* cursor and return a Result<_, ParseError> together with the cursor.    *)

ParserNew(tokens, reporter) == [tokens |-> tokens, current |-> 0, reporter |-> reporter]

ParserPeek(tokens, cur) == tokens[cur + 1]

ParserIsAtEnd(tokens, cur) == ParserPeek(tokens, cur).token_type.kind = "EndOfFile"

check(tokens, cur, kind) ==
    ~ParserIsAtEnd(tokens, cur) /\ ParserPeek(tokens, cur).token_type.kind = kind

\* Parser::previous: &self.tokens[self.current - 1]
previous(tokens, cur) == tokens[cur]

\* Parser::advance: the cursor after the call; the token returned is previous
ParserAdvance(tokens, cur) == IF ~ParserIsAtEnd(tokens, cur) THEN cur + 1 ELSE cur

match_token_types(tokens, cur, kinds) == \E k \in kinds : check(tokens, cur, k)

POk(value, cur) ==
    [ok |-> TRUE, value |-> value, current |-> cur, token |-> NoToken, message |-> ""]
PErr(token, message, cur) ==
    [ok |-> FALSE, value |-> ExprLiteral(ValNil), current |-> cur,
     token |-> token, message |-> message]

\* Parser::consume; on success the value is the consumed token
consume(tokens, cur, kind, message) ==
    IF check(tokens, cur, kind)
    THEN LET c == ParserAdvance(tokens, cur) IN POk(previous(tokens, c), c)
    ELSE PErr(ParserPeek(tokens, cur), message, cur)

\* The expression productions.  Production(rule, ...) is the method named
\* `rule`; the four binary tiers share one shape (parser.rs:157-217) and differ
\* in their operators and in the production of their operands.
\* mutant of TierOperators: the operators of term and factor are exchanged
TierOperators_TermFactorSwapped(rule) ==
    CASE rule = "equality" -> {"BangEqual", "EqualEqual"}
      [] rule = "comparison" -> {"Greater", "GreaterEqual", "Less", "LessEqual"}
      [] rule = "term" -> {"Slash", "Star"}
      [] rule = "factor" -> {"Minus", "Plus"}

TierOperators(rule) ==
    CASE rule = "equality" -> {"BangEqual", "EqualEqual"}
      [] rule = "comparison" -> {"Greater", "GreaterEqual", "Less", "LessEqual"}
      [] rule = "term" -> {"Minus", "Plus"}
      [] rule = "factor" -> {"Slash", "Star"}

TierOperand(rule) ==
    CASE rule = "equality" -> "comparison"
      [] rule = "comparison" -> "term"
      [] rule = "term" -> "factor"
      [] rule = "factor" -> "unary"

\* the Grouping arm of Parser::primary, after the inner expression e was parsed
GroupingClose(tokens, e) ==
    LET c == ParserAdvance(tokens, e.current)
        token == previous(tokens, c)
    IN  IF token.token_type.kind = "RightParen"
        THEN POk(ExprGrouping(e.value), c)
        ELSE PErr(ParserPeek(tokens, c), "Parsing error: expecting ')'", c)

RECURSIVE Production(_, _, _), TierLoop(_, _, _, _)

\* mutant of TierLoop: the right operand is the rest of the chain (right-associative)
TierLoop_RightAssociative(rule, tokens, expr, cur) ==
    IF match_token_types(tokens, cur, TierOperators(rule))
    THEN LET c == ParserAdvance(tokens, cur)
             operator == previous(tokens, c)
             r == Production(rule, tokens, c)
         IN  IF ~r.ok THEN r
             ELSE POk(ExprBinary(expr, operator, r.value), r.current)
    ELSE POk(expr, cur)

\* the while loop of Parser::equality / comparison / term / factor
TierLoop(rule, tokens, expr, cur) ==
    IF match_token_types(tokens, cur, TierOperators(rule))
    THEN LET c == ParserAdvance(tokens, cur)
             operator == previous(tokens, c)
             r == Production(TierOperand(rule), tokens, c)
         IN  IF ~r.ok THEN r
             ELSE TierLoop(rule, tokens, ExprBinary(expr, operator, r.value), r.current)
    ELSE POk(expr, cur)

Production(rule, tokens, cur) ==
    CASE rule \in {"equality", "comparison", "term", "factor"} ->
           LET l == Production(TierOperand(rule), tokens, cur)
           IN  IF ~l.ok THEN l ELSE TierLoop(rule, tokens, l.value, l.current)
      [] rule = "unary" ->
           IF match_token_types(tokens, cur, {"Bang", "Minus"})
           THEN LET c == ParserAdvance(tokens, cur)
                    operator == previous(tokens, c)
                    r == Production("unary", tokens, c)
                IN  IF ~r.ok THEN r ELSE POk(ExprUnary(operator, r.value), r.current)
           ELSE Production("primary", tokens, cur)
      [] rule = "primary" ->
           LET tt == ParserPeek(tokens, cur).token_type
           IN  CASE tt.kind = "False" ->
                      POk(ExprLiteral(ValBool(FALSE)), ParserAdvance(tokens, cur))
                 [] tt.kind = "True" ->
                      POk(ExprLiteral(ValBool(TRUE)), ParserAdvance(tokens, cur))
                 [] tt.kind = "Nil" ->
                      POk(ExprLiteral(ValNil), ParserAdvance(tokens, cur))
                 [] tt.kind = "Number" ->
                      POk(ExprLiteral(ValNumber(tt.num)), ParserAdvance(tokens, cur))
                 [] tt.kind = "String" ->
                      POk(ExprLiteral(ValString(tt.str)), ParserAdvance(tokens, cur))
                 [] tt.kind = "LeftParen" ->
                      LET e == Production("equality", tokens, ParserAdvance(tokens, cur))
                      IN  IF ~e.ok THEN e ELSE GroupingClose(tokens, e)
                 [] tt.kind = "Identifier" ->
                      LET c == ParserAdvance(tokens, cur)
                      IN  POk(ExprVariable(previous(tokens, c)), c)
                 [] OTHER ->
                      PErr(ParserPeek(tokens, cur),
                           "No other literal token types . Not reachable.", cur)

\* Parser::expression, which is Parser::equality
expression(tokens, cur) == Production("equality", tokens, cur)

print_statement(tokens, cur) ==
    LET value == expression(tokens, cur)
    IN  IF ~value.ok THEN value
        ELSE LET semi == consume(tokens, value.current, "Semicolon", "Expect ';' after value.")
             IN  IF ~semi.ok THEN semi ELSE POk(StmtPrint(value.value), semi.current)

expression_statement(tokens, cur) ==
    LET expr == expression(tokens, cur)
    IN  IF ~expr.ok THEN expr
        ELSE LET semi == consume(tokens, expr.current, "Semicolon", "Expect ';' after value.")
             IN  IF ~semi.ok THEN semi ELSE POk(StmtExpr(expr.value), semi.current)

statement(tokens, cur) ==
    IF match_token_types(tokens, cur, {"Print"})
    THEN print_statement(tokens, ParserAdvance(tokens, cur))
    ELSE expression_statement(tokens, cur)

var_declaration(tokens, cur) ==
    LET name == consume(tokens, cur, "Identifier", "Expect variable name.")
    IN  IF ~name.ok THEN name
        ELSE LET has_init == match_token_types(tokens, name.current, {"Equal"})
                 init == IF has_init
                         THEN expression(tokens, ParserAdvance(tokens, name.current))
                         ELSE POk(ExprLiteral(ValNil), name.current)
             IN  IF ~init.ok THEN init
                 ELSE LET semi == consume(tokens, init.current, "Semicolon",
                                          "Expect ';' after variable declaration.")
                      IN  IF ~semi.ok THEN semi
                          ELSE POk(StmtVar(name.value,
                                           IF has_init THEN <<init.value>> ELSE <<>>),
                                   semi.current)

SyncKeywords == {"Class", "Fun", "Var", "For", "If", "While", "Print", "Return"}

\* the while loop of Parser::synchronize
RECURSIVE SyncLoop(_, _)
SyncLoop(tokens, cur) ==
    IF ParserIsAtEnd(tokens, cur) THEN cur
    ELSE IF previous(tokens, cur).token_type.kind = "Semicolon" THEN cur
    ELSE IF ParserPeek(tokens, cur).token_type.kind \in SyncKeywords THEN cur
    ELSE SyncLoop(tokens, ParserAdvance(tokens, cur))

synchronize(tokens, cur) == SyncLoop(tokens, ParserAdvance(tokens, cur))

nil_stub_stmt == StmtExpr(ExprLiteral(ValNil))

\* Parser::declaration: the parser after the call and the Stmt returned
declaration(p) ==
    LET r == IF match_token_types(p.tokens, p.current, {"Var"})
             THEN var_declaration(p.tokens, ParserAdvance(p.tokens, p.current))
             ELSE statement(p.tokens, p.current)
    IN  IF r.ok
        THEN [parser |-> [p EXCEPT !.current = r.current], stmt |-> r.value]
        ELSE [parser |-> [p EXCEPT !.current = synchronize(p.tokens, r.current),
                                   !.reporter = parser_error(@, r.token, <<r.message>>)],
              stmt |-> nil_stub_stmt]

-----------------------------------------------------------------------------
(* f64 arithmetic on the rational model *)

IsNaN(x) == x.d = 0 /\ x.n = 0
IsInf(x) == x.d = 0 /\ x.n # 0
NaN == [n |-> 0, d |-> 0]
Sign(k) == IF k > 0 THEN 1 ELSE IF k < 0 THEN -1 ELSE 0

F64Neg(x) == [n |-> 0 - x.n, d |-> x.d]

F64Add(a, b) ==
    IF IsNaN(a) \/ IsNaN(b) THEN NaN
    ELSE IF IsInf(a) /\ IsInf(b) THEN (IF a.n = b.n THEN a ELSE NaN)
    ELSE IF IsInf(a) THEN a
    ELSE IF IsInf(b) THEN b
    ELSE Rat(a.n * b.d + b.n * a.d, a.d * b.d)

F64Sub(a, b) == F64Add(a, F64Neg(b))

F64Mul(a, b) ==
    IF IsNaN(a) \/ IsNaN(b) THEN NaN
    ELSE IF IsInf(a) \/ IsInf(b) THEN Rat(Sign(a.n) * Sign(b.n), 0)
    ELSE Rat(a.n * b.n, a.d * b.d)

F64Div(a, b) ==
    IF IsNaN(a) \/ IsNaN(b) THEN NaN
    ELSE IF IsInf(a) /\ IsInf(b) THEN NaN
    ELSE IF IsInf(a) THEN Rat(a.n * (IF b.n < 0 THEN -1 ELSE 1), 0)
    ELSE IF IsInf(b) THEN Rat(0, 1)
    ELSE IF b.n = 0 THEN Rat(Sign(a.n), 0)
    ELSE Rat(a.n * b.d, a.d * b.n)

F64Lt(a, b) ==
    IF IsNaN(a) \/ IsNaN(b) THEN FALSE
    ELSE IF IsInf(a) /\ IsInf(b) THEN a.n < b.n
    ELSE IF IsInf(a) THEN a.n < 0
    ELSE IF IsInf(b) THEN b.n > 0
    ELSE a.n * b.d < b.n * a.d

F64Eq(a, b) == ~IsNaN(a) /\ ~IsNaN(b) /\ a = b

\* the == of LiteralValue (PartialEq)
ValueEq(l, r) ==
    /\ l.kind = r.kind
    /\ CASE l.kind = "Number" -> F64Eq(l.num, r.num)
         [] l.kind = "String" -> l.str = r.str
         [] l.kind = "Bool" -> l.bool = r.bool
         [] OTHER -> TRUE

-----------------------------------------------------------------------------
(* Environment (environment.rs) *)

\* Environment::default: an empty HashMap, as the set of its (key, value) entries
EnvironmentDefault == [values |-> {}]

Keys(env) == {e[1] : e \in env.values}
Lookup(env, key) == (CHOOSE e \in env.values : e[1] = key)[2]

\* mutant of define: an existing entry is kept (insert-if-absent)
define_KeepExisting(env, name, value) ==
    IF name \in Keys(env) THEN env ELSE [values |-> env.values \cup {<<name, value>>}]

\* HashMap::insert
define(env, name, value) ==
    [values |-> {e \in env.values : e[1] # name} \cup {<<name, value>>}]

EOk(value) == [ok |-> TRUE, value |-> value, message |-> ""]
EErr(message) == [ok |-> FALSE, value |-> ValNil, message |-> message]

get(env, name) ==
    IF name.lexeme \in Keys(env) THEN EOk(Lookup(env, name.lexeme))
    ELSE EErr("undefined variabel")

-----------------------------------------------------------------------------
(* Interpreter (interpreter.rs) *)

InterpreterNew == [environment |-> EnvironmentDefault]

\* mutant of is_truthy: the number 0 and the empty string are falsy too
is_truthy_ZeroAndEmptyFalsy(v) ==
    CASE v.kind = "Nil" -> FALSE
      [] v.kind = "Bool" -> v.bool
      [] v.kind = "Number" -> v.num # Rat(0, 1)
      [] v.kind = "String" -> v.str # <<>>

is_truthy(v) ==
    CASE v.kind = "Nil" -> FALSE
      [] v.kind = "Bool" -> v.bool
      [] OTHER -> TRUE

\* mutant of BothNumbers: one Number among the two operands is enough
BothNumbers_EitherNumber(l, r) == l.kind = "Number" \/ r.kind = "Number"

BothNumbers(l, r) == l.kind = "Number" /\ r.kind = "Number"

\* the match on the operator of visit_unary_expr, on the evaluated operand
UnaryOp(kind, right) ==
    CASE kind = "Minus" ->
           IF right.kind = "Number" THEN EOk(ValNumber(F64Neg(right.num)))
           ELSE EErr("negation can only act on a number")
      [] kind = "Bang" -> EOk(ValBool(~is_truthy(right)))
      [] OTHER -> EErr("unary operation can only have operator '-' or '!'")

\* the match on the operator of visit_binary_expr, on the evaluated operands
BinaryOp(kind, left, right) ==
    CASE kind = "Minus" ->
           IF BothNumbers(left, right) THEN EOk(ValNumber(F64Sub(left.num, right.num)))
           ELSE EErr("substraction can only act on a pair of numbers")
      [] kind = "Slash" ->
           IF BothNumbers(left, right) THEN EOk(ValNumber(F64Div(left.num, right.num)))
           ELSE EErr("negation can only act on a pair of numbers")
      [] kind = "Star" ->
           IF BothNumbers(left, right) THEN EOk(ValNumber(F64Mul(left.num, right.num)))
           ELSE EErr("negation can only act on a pair of numbers")
      [] kind = "Less" ->
           IF BothNumbers(left, right) THEN EOk(ValBool(F64Lt(left.num, right.num)))
           ELSE EErr("< can only act on a pair of numbers")
      [] kind = "Greater" ->
           IF BothNumbers(left, right) THEN EOk(ValBool(F64Lt(right.num, left.num)))
           ELSE EErr("> can only act on a pair of numbers")
      [] kind = "LessEqual" ->
           IF BothNumbers(left, right)
           THEN EOk(ValBool(F64Lt(left.num, right.num) \/ F64Eq(left.num, right.num)))
           ELSE EErr("<= can only act on a pair of numbers")
      [] kind = "GreaterEqual" ->
           IF BothNumbers(left, right)
           THEN EOk(ValBool(F64Lt(right.num, left.num) \/ F64Eq(left.num, right.num)))
           ELSE EErr(">= can only act on a pair of numbers")
      [] kind = "BangEqual" -> EOk(ValBool(~ValueEq(left, right)))
      [] kind = "EqualEqual" -> EOk(ValBool(ValueEq(left, right)))
      [] kind = "Plus" ->
           IF BothNumbers(left, right) THEN EOk(ValNumber(F64Add(left.num, right.num)))
           ELSE IF left.kind = "String" /\ right.kind = "String"
           THEN EOk(ValString(left.str \o right.str))
           ELSE EErr("addition can only act on a pair of numbers or strings")
      [] OTHER ->
           EErr("binary operation can only have operator  '-', '+', '*', '/', '<', '>', '<=', '>=','==', '!='")

\* Interpreter::evaluate with the ExprVisitor methods it dispatches to
RECURSIVE evaluate(_, _)

\* mutant of evaluate: the right operand of a binary expression is evaluated first
evaluate_RightOperandFirst(interp, expr) ==
    CASE expr.node = "Unary" ->
           LET right == evaluate(interp, expr.right)
           IN  IF ~right.ok THEN right
               ELSE UnaryOp(expr.operator.token_type.kind, right.value)
      [] expr.node = "Binary" ->
           LET right == evaluate(interp, expr.right)
           IN  IF ~right.ok THEN right
               ELSE LET left == evaluate(interp, expr.left)
                    IN  IF ~left.ok THEN left
                        ELSE BinaryOp(expr.operator.token_type.kind, left.value, right.value)
      [] expr.node = "Literal" -> EOk(expr.value)
      [] expr.node = "Grouping" -> evaluate(interp, expr.expr)
      [] expr.node = "Variable" -> get(interp.environment, expr.name)

\* mutant of evaluate: `+` on operands it cannot add yields Nil instead of an Err
evaluate_PlusFallsBackToNil(interp, expr) ==
    CASE expr.node = "Unary" ->
           LET right == evaluate(interp, expr.right)
           IN  IF ~right.ok THEN right
               ELSE UnaryOp(expr.operator.token_type.kind, right.value)
      [] expr.node = "Binary" ->
           LET left == evaluate(interp, expr.left)
           IN  IF ~left.ok THEN left
               ELSE LET right == evaluate(interp, expr.right)
                        kind == expr.operator.token_type.kind
                    IN  IF ~right.ok THEN right
                        ELSE LET r == BinaryOp(kind, left.value, right.value)
                             IN  IF kind = "Plus" /\ ~r.ok THEN EOk(ValNil) ELSE r
      [] expr.node = "Literal" -> EOk(expr.value)
      [] expr.node = "Grouping" -> evaluate(interp, expr.expr)
      [] expr.node = "Variable" -> get(interp.environment, expr.name)

\* mutant of evaluate: `!=` gives the result of `==`, without the negation
evaluate_NotEqualUnnegated(interp, expr) ==
    CASE expr.node = "Unary" ->
           LET right == evaluate(interp, expr.right)
           IN  IF ~right.ok THEN right
               ELSE UnaryOp(expr.operator.token_type.kind, right.value)
      [] expr.node = "Binary" ->
           LET left == evaluate(interp, expr.left)
           IN  IF ~left.ok THEN left
               ELSE LET right == evaluate(interp, expr.right)
                        kind == expr.operator.token_type.kind
                    IN  IF ~right.ok THEN right
                        ELSE BinaryOp(IF kind = "BangEqual" THEN "EqualEqual" ELSE kind,
                                      left.value, right.value)
      [] expr.node = "Literal" -> EOk(expr.value)
      [] expr.node = "Grouping" -> evaluate(interp, expr.expr)
      [] expr.node = "Variable" -> get(interp.environment, expr.name)

evaluate(interp, expr) ==
    CASE expr.node = "Unary" ->
           LET right == evaluate(interp, expr.right)
           IN  IF ~right.ok THEN right
               ELSE UnaryOp(expr.operator.token_type.kind, right.value)
      [] expr.node = "Binary" ->
           LET left == evaluate(interp, expr.left)
           IN  IF ~left.ok THEN left
               ELSE LET right == evaluate(interp, expr.right)
                    IN  IF ~right.ok THEN right
                        ELSE BinaryOp(expr.operator.token_type.kind, left.value, right.value)
      [] expr.node = "Literal" -> EOk(expr.value)
      [] expr.node = "Grouping" -> evaluate(interp, expr.expr)
      [] expr.node = "Variable" -> get(interp.environment, expr.name)

XOk(interp, printed) ==
    [ok |-> TRUE, interpreter |-> interp, printed |-> printed, message |-> ""]
XErr(interp, message) ==
    [ok |-> FALSE, interpreter |-> interp, printed |-> <<>>, message |-> message]

visit_expr_stmt(interp, stmt) ==
    LET v == evaluate(interp, stmt.expr)
    IN  IF ~v.ok THEN XErr(interp, v.message) ELSE XOk(interp, <<>>)

visit_print_stmt(interp, stmt) ==
    LET v == evaluate(interp, stmt.expr)
    IN  IF ~v.ok THEN XErr(interp, v.message)
        ELSE XOk(interp, <<[kind |-> "print", value |-> v.value, message |-> ""]>>)

\* mutant of visit_var_stmt: an initializer that raises leaves the name defined as Nil
visit_var_stmt_DefinesNilOnError(interp, stmt) ==
    LET v == IF stmt.initializer # <<>> THEN evaluate(interp, stmt.initializer[1])
             ELSE EOk(ValNil)
    IN  IF ~v.ok
        THEN XErr([interp EXCEPT !.environment = define(@, stmt.name.lexeme, ValNil)],
                  v.message)
        ELSE XOk([interp EXCEPT !.environment = define(@, stmt.name.lexeme, v.value)], <<>>)

visit_var_stmt(interp, stmt) ==
    LET v == IF stmt.initializer # <<>> THEN evaluate(interp, stmt.initializer[1])
             ELSE EOk(ValNil)
    IN  IF ~v.ok THEN XErr(interp, v.message)
        ELSE XOk([interp EXCEPT !.environment = define(@, stmt.name.lexeme, v.value)], <<>>)

\* Interpreter::execute: the interpreter after the call, the lines printed, the Result
execute(interp, stmt) ==
    CASE stmt.stmt = "Print" -> visit_print_stmt(interp, stmt)
      [] stmt.stmt = "Expr" -> visit_expr_stmt(interp, stmt)
      [] stmt.stmt = "Var" -> visit_var_stmt(interp, stmt)

-----------------------------------------------------------------------------
(* Inputs *)

\* the characters of the source texts that ScanSpec scans
SrcChars == {QUOTE, "n", NEWLINE, "1", ";", "@", EACUTE, "/"}

Texts == UNION {[1..n -> SrcChars] : n \in 0..MaxSrcLen}

SP == <<" ">>
W_var == <<"v", "a", "r">>
W_print == <<"p", "r", "i", "n", "t">>

\* the lines typed at the prompt in Spec (read_line keeps the newline)
LineDefine == W_var \o SP \o <<"a", " ", "=", " ", "1", ";", NEWLINE>>
LinePrint == W_print \o SP \o <<"a", ";", NEWLINE>>
LineDefineThenFail ==
    W_var \o SP \o <<"b", " ", "=", " ", "2", ";", " ">> \o W_print \o SP \o <<"c", ";", NEWLINE>>
LineTypeError == W_print \o SP \o <<"-", QUOTE, "s", QUOTE, ";", NEWLINE>>
LineBadChar == W_var \o SP \o <<"d", ";", " ", "@", NEWLINE>>
LineMissingSemicolon == W_print \o SP \o <<"1", NEWLINE>>
LineUnterminated == W_print \o SP \o <<QUOTE, "s", ";", NEWLINE>>
LineEmpty == <<NEWLINE>>

Lines == {LineDefine, LinePrint, LineDefineThenFail, LineTypeError, LineBadChar,
          LineMissingSemicolon, LineUnterminated, LineEmpty}

\* tokens as the scanner emits them on line 0
Tk(kind, lexeme) == Token(TT(kind), lexeme, 0)
tkPrint == Tk("Print", W_print)
tkVar == Tk("Var", W_var)
tkX == Tk("Identifier", <<"x">>)
tkY == Tk("Identifier", <<"y">>)
tkSemi == Tk("Semicolon", <<";">>)
tkEqual == Tk("Equal", <<"=">>)
tkMinus == Tk("Minus", <<"-">>)
tkLeftParen == Tk("LeftParen", <<"(">>)
tkOne == Token(TTNumber(Rat(1, 1)), <<"1">>, 0)
tkTwo == Token(TTNumber(Rat(2, 1)), <<"2">>, 0)
tkStr == Token(TTString(<<"s">>), <<QUOTE, "s", QUOTE>>, 0)
tkEOF == Token(TT("EndOfFile"), <<>>, 0)

\* well-formed statements
ValidFrags ==
    { <<tkPrint, tkOne, tkSemi>>,                 \* print 1;
      <<tkPrint, tkX, tkSemi>>,                   \* print x;
      <<tkPrint, tkY, tkSemi>>,                   \* print y;
      <<tkVar, tkX, tkEqual, tkOne, tkSemi>>,     \* var x = 1;
      <<tkVar, tkX, tkEqual, tkTwo, tkSemi>>,     \* var x = 2;
      <<tkVar, tkX, tkSemi>>,                     \* var x;
      <<tkVar, tkY, tkEqual, tkX, tkSemi>>,       \* var y = x;
      <<tkPrint, tkMinus, tkStr, tkSemi>> }       \* print -"s";

\* malformed statements
MalformedFrags ==
    { <<tkPrint, tkOne>>,                         \* print 1      (no ;)
      <<tkVar, tkX, tkEqual, tkOne>>,             \* var x = 1    (no ;)
      <<tkPrint, tkSemi>>,                        \* print ;
      <<tkLeftParen, tkOne, tkSemi>>,             \* ( 1 ;
      <<tkPrint, tkOne, tkOne, tkSemi>> }         \* print 1 1 ;

Frags == ValidFrags \cup MalformedFrags

RECURSIVE Flatten(_)
Flatten(ss) == IF ss = <<>> THEN <<>> ELSE Head(ss) \o Flatten(Tail(ss))

\* the token vectors that ProgramSpec parses and interprets
Programs == {Flatten(fs) \o <<tkEOF>> : fs \in UNION {[1..n -> Frags] : n \in 0..MaxStmts}}

\* literal and operator tokens of the expressions that ExprSpec evaluates
tkNil == Tk("Nil", <<"n", "i", "l">>)
tkTrue == Tk("True", <<"t", "r", "u", "e">>)
tkFalse == Tk("False", <<"f", "a", "l", "s", "e">>)
tkZero == Token(TTNumber(Rat(0, 1)), <<"0">>, 0)
tkThree == Token(TTNumber(Rat(3, 1)), <<"3">>, 0)
tkFour == Token(TTNumber(Rat(4, 1)), <<"4">>, 0)
tkTen == Token(TTNumber(Rat(10, 1)), <<"1", "0">>, 0)
tkEmptyStr == Token(TTString(<<>>), <<QUOTE, QUOTE>>, 0)
tkStrOne == Token(TTString(<<"1">>), <<QUOTE, "1", QUOTE>>, 0)
tkStrT == Token(TTString(<<"t">>), <<QUOTE, "t", QUOTE>>, 0)
tkRightParen == Tk("RightParen", <<")">>)
tkBang == Tk("Bang", <<"!">>)
tkPlus == Tk("Plus", <<"+">>)
tkStar == Tk("Star", <<"*">>)
tkSlash == Tk("Slash", <<"/">>)
tkLess == Tk("Less", <<"<">>)
tkLessEqual == Tk("LessEqual", <<"<", "=">>)
tkGreater == Tk("Greater", <<">">>)
tkGreaterEqual == Tk("GreaterEqual", <<">", "=">>)
tkEqualEqual == Tk("EqualEqual", <<"=", "=">>)
tkBangEqual == Tk("BangEqual", <<"!", "=">>)

\* one literal token or more of every variant of LiteralValue
OperandTokens == {tkNil, tkTrue, tkFalse, tkZero, tkOne, tkEmptyStr, tkStrOne, tkStr, tkStrT}

BinaryOperatorTokens ==
    {tkBangEqual, tkEqualEqual, tkLess, tkLessEqual, tkGreater, tkGreaterEqual,
     tkMinus, tkPlus, tkSlash, tkStar}

UnaryOperatorTokens == {tkBang, tkMinus}

\* `a op b` over every pair of operands and every binary operator
BinaryExprs == {<<a, op, b>> : a \in OperandTokens, op \in BinaryOperatorTokens, b \in OperandTokens}

\* `u a` and `u1 u2 a` over every operand and every unary operator
UnaryExprs ==
    {<<u, a>> : u \in UnaryOperatorTokens, a \in OperandTokens}
      \cup {<<u1, u2, a>> : u1 \in UnaryOperatorTokens, u2 \in UnaryOperatorTokens, a \in OperandTokens}

\* the i-th operand of a chain
ChainOperand(i) ==
    CASE i = 1 -> tkOne
      [] i = 2 -> tkTwo
      [] i = 3 -> tkThree
      [] OTHER -> tkFour

\* `1 op1 2 op2 3 ...`: the operators ops between the numbers 1, 2, 3, ...
RECURSIVE Chain(_)
Chain(ops) ==
    IF ops = <<>> THEN <<ChainOperand(1)>>
    ELSE Chain(SubSeq(ops, 1, Len(ops) - 1)) \o <<ops[Len(ops)], ChainOperand(Len(ops) + 1)>>

ChainExprs == {Chain(ops) : ops \in UNION {[1..n -> BinaryOperatorTokens] : n \in 1..MaxOps}}

\* the expressions the spec gives as examples
ExampleExprs ==
    { <<tkOne, tkPlus, tkTwo, tkStar, tkThree>>,                             \* 1 + 2 * 3
      <<tkLeftParen, tkOne, tkPlus, tkTwo, tkRightParen, tkStar, tkThree>>,  \* (1 + 2) * 3
      <<tkTen, tkMinus, tkTwo, tkMinus, tkThree>>,                           \* 10 - 2 - 3
      <<tkZero, tkSlash, tkZero, tkEqualEqual, tkZero, tkSlash, tkZero>>,    \* 0 / 0 == 0 / 0
      <<tkZero, tkSlash, tkZero, tkBangEqual, tkZero, tkSlash, tkZero>> }    \* 0 / 0 != 0 / 0

\* `u 1 op 2` over every unary and every binary operator
PrefixedExprs ==
    {<<u, tkOne, op, tkTwo>> : u \in UnaryOperatorTokens, op \in BinaryOperatorTokens}

\* the token vectors that ExprSpec parses and evaluates: `print e;`
PrintOf(e) == <<tkPrint>> \o e \o <<tkSemi, tkEOF>>

ExprPrograms ==
    {PrintOf(e) :
        e \in BinaryExprs \cup UnaryExprs \cup ChainExprs \cup PrefixedExprs \cup ExampleExprs}

\* the well-formed literals that LiteralSpec scans, parses and evaluates
StringChars == {"a", "n", " ", NEWLINE, EACUTE}
NumberDigits == {"0", "1", "5"}

StringBodies == UNION {[1..n -> StringChars] : n \in 0..MaxLitLen}
DigitStrings == UNION {[1..n -> NumberDigits] : n \in 1..MaxLitLen}

StringLiterals == {<<QUOTE>> \o body \o <<QUOTE>> : body \in StringBodies}
NumberLiterals ==
    DigitStrings \cup {whole \o <<".">> \o frac : whole \in DigitStrings, frac \in DigitStrings}

\* the source texts `print <literal>;`
LiteralSources ==
    {W_print \o SP \o literal \o <<";">> : literal \in StringLiterals \cup NumberLiterals}

\* k copies of a token
Repeat(token, k) == [i \in 1..k |-> token]

\* `(`^k 1 `)`^j, with or without the `;` of the statement
Parens(k, j, semi) ==
    Repeat(tkLeftParen, k) \o <<tkOne>> \o Repeat(tkRightParen, j) \o semi \o <<tkEOF>>

\* `( 1 t ...`: the token t stands where the `)` is expected
Unclosed(t, rest) == <<tkLeftParen, tkOne, t>> \o rest \o <<tkEOF>>

IntruderTokens == {tkSemi, tkOne, tkX, tkLeftParen}

\* the token vectors that ParenSpec parses and interprets
ParenPrograms ==
    {Parens(k, j, semi) : k \in 0..MaxDepth, j \in 0..MaxDepth, semi \in {<<>>, <<tkSemi>>}}
      \cup {Unclosed(t, rest) : t \in IntruderTokens,
                                rest \in {<<>>, <<tkSemi>>, <<tkRightParen, tkSemi>>}}

\* operands that evaluate to a value of each variant, and two that raise
\* different errors: the undefined variable x and the negation of a string
EvalOperands == {<<tkOne>>, <<tkStr>>, <<tkTrue>>, <<tkNil>>, <<tkX>>, <<tkMinus, tkStr>>}

\* the token vectors that EvalOrderSpec parses and evaluates: `print l op r;`
EvalOrderPrograms ==
    {PrintOf(l \o <<op>> \o r) :
        l \in EvalOperands, op \in BinaryOperatorTokens, r \in EvalOperands}

\* the source texts of up to MaxLexLen characters over a set of characters
TextsOver(chars) == UNION {[1..n -> chars] : n \in 0..MaxLexLen}

\* the characters of the source texts that CommentSpec scans
CommentChars == {"/", NEWLINE, "1", "@", QUOTE}

\* the source texts of digits and dots that NumberSpec scans
NumberChars == {"1", "2", "3", "5", "."}
NumberTexts == UNION {[1..n -> NumberChars] : n \in 0..MaxNumLen}

\* the 16 keywords with the kinds of their tokens
KeywordTable ==
    { <<<<"a", "n", "d">>, "And">>,
      <<<<"c", "l", "a", "s", "s">>, "Class">>,
      <<<<"e", "l", "s", "e">>, "Else">>,
      <<<<"f", "a", "l", "s", "e">>, "False">>,
      <<<<"f", "o", "r">>, "For">>,
      <<<<"f", "u", "n">>, "Fun">>,
      <<<<"i", "f">>, "If">>,
      <<<<"n", "i", "l">>, "Nil">>,
      <<<<"o", "r">>, "Or">>,
      <<<<"p", "r", "i", "n", "t">>, "Print">>,
      <<<<"r", "e", "t", "u", "r", "n">>, "Return">>,
      <<<<"s", "u", "p", "e", "r">>, "Super">>,
      <<<<"t", "h", "i", "s">>, "This">>,
      <<<<"t", "r", "u", "e">>, "True">>,
      <<<<"v", "a", "r">>, "Var">>,
      <<<<"w", "h", "i", "l", "e">>, "While">> }

Keywords == {kw[1] : kw \in KeywordTable}

\* words: a keyword or another stem, with or without a prefix and a suffix of
\* letters, digits and underscores
WordStems == Keywords \cup {<<"x">>, <<"v", "a">>, <<"p", "r", "i", "n">>}
WordPrefixes == {<<>>, <<"_">>, <<"x">>}
WordSuffixes == {<<>>, <<"1">>, <<"x">>, <<"_">>, <<"i", "a", "b", "l", "e">>}

Words == {pre \o stem \o suf : pre \in WordPrefixes, stem \in WordStems, suf \in WordSuffixes}

\* words joined by single spaces
RECURSIVE JoinWords(_)
JoinWords(ws) ==
    IF ws = <<>> THEN <<>>
    ELSE IF Len(ws) = 1 THEN ws[1]
    ELSE ws[1] \o SP \o JoinWords(Tail(ws))

\* the source texts that WordSpec scans
WordTexts == {JoinWords(ws) : ws \in UNION {[1..n -> Words] : n \in 1..MaxWords}}

\* declarations, prints and expression statements that succeed or raise
tkStrA == Token(TTString(<<"a">>), <<QUOTE, "a", QUOTE>>, 0)

DeclFrags ==
    { <<tkVar, tkX, tkEqual, tkOne, tkSemi>>,                  \* var x = 1;
      <<tkVar, tkX, tkEqual, tkTwo, tkSemi>>,                  \* var x = 2;
      <<tkVar, tkX, tkEqual, tkX, tkPlus, tkStrA, tkSemi>>,    \* var x = x + "a";
      <<tkVar, tkX, tkSemi>>,                                  \* var x;
      <<tkVar, tkY, tkEqual, tkY, tkSemi>>,                    \* var y = y;
      <<tkVar, tkY, tkEqual, tkX, tkSemi>>,                    \* var y = x;
      <<tkPrint, tkX, tkSemi>>,                                \* print x;
      <<tkPrint, tkMinus, tkStrA, tkSemi>>,                    \* print -"a";
      <<tkY, tkSemi>>,                                         \* y;
      <<tkOne, tkPlus, tkStrA, tkSemi>> }                      \* 1 + "a";

\* the token vectors that DeclSpec parses and interprets
DeclPrograms ==
    {Flatten(fs) \o <<tkEOF>> : fs \in UNION {[1..n -> DeclFrags] : n \in 0..MaxDecls}}

\* the tokens of the token vectors that ParseSpec parses
ParseTokens == {tkPrint, tkVar, tkX, tkSemi, tkEqual, tkOne, tkLeftParen, tkRightParen, tkMinus}

\* every vector of up to MaxTokens of them, ended by the EndOfFile token
TokenVectors == {ts \o <<tkEOF>> : ts \in UNION {[1..n -> ParseTokens] : n \in 0..MaxTokens}}

\* the characters of the source texts that OperatorSpec scans
OperatorChars == {"!", "=", "<", ">", " "}

-----------------------------------------------------------------------------
(* The driver (main.rs) as a state machine *)

NoResult == [state |-> "none", message |-> ""]
ResultOk == [state |-> "Ok", message |-> ""]
ResultErr(message) == [state |-> "Err", message |-> message]

NoScanner == ScannerNew(<<>>, StdoutReporterDefault)
NoParser == ParserNew(<<tkEOF>>, StdoutReporterDefault)

\* Lux::run_prompt before its first read_line
Init ==
    /\ pc = "idle"
    /\ scanner = NoScanner
    /\ parser = NoParser
    /\ statements = <<>>
    /\ interpreter = InterpreterNew
    /\ stmtIdx = 0
    /\ result = NoResult
    /\ stdout = <<>>
    /\ runs = 0

\* mutant of ReadLine: every run gets a new Interpreter
ReadLine_FreshInterpreter ==
    /\ pc = "idle"
    /\ runs < MaxRuns
    /\ \E line \in Lines :
         scanner' = ScannerNew(Utf8Text(line), StdoutReporterDefault)
    /\ pc' = "scan"
    /\ parser' = NoParser
    /\ statements' = <<>>
    /\ stmtIdx' = 0
    /\ stdout' = <<>>
    /\ runs' = runs + 1
    /\ interpreter' = InterpreterNew
    /\ UNCHANGED result

\* one iteration of the loop of run_prompt up to the creation of the Scanner in run
ReadLine ==
    /\ pc = "idle"
    /\ runs < MaxRuns
    /\ \E line \in Lines :
         scanner' = ScannerNew(Utf8Text(line), StdoutReporterDefault)
    /\ pc' = "scan"
    /\ parser' = NoParser
    /\ statements' = <<>>
    /\ stmtIdx' = 0
    /\ stdout' = <<>>
    /\ runs' = runs + 1
    /\ UNCHANGED <<interpreter, result>>

\* one iteration of the loop of scan_tokens
ScanStep ==
    /\ pc = "scan"
    /\ ~ScannerIsAtEnd(scanner)
    /\ scanner' = ScanLoopBody(scanner)
    /\ pc' = IF scanner'.panicked THEN "panicked" ELSE "scan"
    /\ UNCHANGED <<parser, statements, interpreter, stmtIdx, result, stdout, runs>>

\* the end of scan_tokens, into_tokens and Parser::new
ScanEnd ==
    /\ pc = "scan"
    /\ ScannerIsAtEnd(scanner)
    /\ scanner' = PushEndOfFile(scanner)
    /\ parser' = ParserNew(scanner'.tokens, scanner'.reporter)
    /\ pc' = "parse"
    /\ UNCHANGED <<statements, interpreter, stmtIdx, result, stdout, runs>>

\* mutant of ParseStep: the loop of parse does not test is_at_end
ParseStep_AlsoAtEnd ==
    /\ pc = "parse"
    /\ LET d == declaration(parser)
       IN  /\ parser' = d.parser
           /\ statements' = Append(statements, d.stmt)
    /\ UNCHANGED <<pc, scanner, interpreter, stmtIdx, result, stdout, runs>>

\* one iteration of the loop of Parser::parse
ParseStep ==
    /\ pc = "parse"
    /\ ~ParserIsAtEnd(parser.tokens, parser.current)
    /\ LET d == declaration(parser)
       IN  /\ parser' = d.parser
           /\ statements' = Append(statements, d.stmt)
    /\ UNCHANGED <<pc, scanner, interpreter, stmtIdx, result, stdout, runs>>

\* the end of Parser::parse and the call of interpret
ParseEnd ==
    /\ pc = "parse"
    /\ ParserIsAtEnd(parser.tokens, parser.current)
    /\ pc' = "interpret"
    /\ stmtIdx' = 0
    /\ UNCHANGED <<scanner, parser, statements, interpreter, result, stdout, runs>>

\* mutant of Execute: a statement that fails is skipped and the loop goes on
Execute_ContinueAfterError ==
    /\ pc = "interpret"
    /\ stmtIdx < Len(statements)
    /\ LET r == execute(interpreter, statements[stmtIdx + 1])
       IN  /\ interpreter' = r.interpreter
           /\ stdout' = stdout \o r.printed
           /\ stmtIdx' = stmtIdx + 1
           /\ UNCHANGED <<pc, result>>
    /\ UNCHANGED <<scanner, parser, statements, runs>>

\* one iteration of the loop of Interpreter::interpret; an Err returns to run, which prints it
Execute ==
    /\ pc = "interpret"
    /\ stmtIdx < Len(statements)
    /\ LET r == execute(interpreter, statements[stmtIdx + 1])
       IN  IF r.ok
           THEN /\ interpreter' = r.interpreter
                /\ stdout' = stdout \o r.printed
                /\ stmtIdx' = stmtIdx + 1
                /\ UNCHANGED <<pc, result>>
           ELSE /\ interpreter' = r.interpreter
                /\ result' = ResultErr(r.message)
                /\ stdout' = Append(stdout, [kind |-> "error in interpreter",
                                             value |-> ValNil, message |-> r.message])
                /\ pc' = "idle"
                /\ UNCHANGED stmtIdx
    /\ UNCHANGED <<scanner, parser, statements, runs>>

\* interpret returns Ok(()) after the last statement
InterpretEnd ==
    /\ pc = "interpret"
    /\ stmtIdx = Len(statements)
    /\ result' = ResultOk
    /\ pc' = "idle"
    /\ UNCHANGED <<scanner, parser, statements, interpreter, stmtIdx, stdout, runs>>

Next ==
    \/ ReadLine
    \/ ScanStep
    \/ ScanEnd
    \/ ParseStep
    \/ ParseEnd
    \/ Execute
    \/ InterpretEnd

\* the interactive session: Lux::run_prompt
Spec == Init /\ [][Next]_vars

\* Scanner::scan_tokens over every bounded source text
ScanInit ==
    /\ pc = "scan"
    /\ \E text \in Texts : scanner = ScannerNew(Utf8Text(text), StdoutReporterDefault)
    /\ parser = NoParser
    /\ statements = <<>>
    /\ interpreter = InterpreterNew
    /\ stmtIdx = 0
    /\ result = NoResult
    /\ stdout = <<>>
    /\ runs = 1

ScanNext == ScanStep \/ ScanEnd

ScanSpec == ScanInit /\ [][ScanNext]_vars

\* Lux::run from Parser::new on, over every bounded program
ProgramInit ==
    /\ pc = "parse"
    /\ scanner = NoScanner
    /\ \E tokens \in Programs : parser = ParserNew(tokens, StdoutReporterDefault)
    /\ statements = <<>>
    /\ interpreter = InterpreterNew
    /\ stmtIdx = 0
    /\ result = NoResult
    /\ stdout = <<>>
    /\ runs = 1

ProgramNext == ParseStep \/ ParseEnd \/ Execute \/ InterpretEnd

ProgramSpec == ProgramInit /\ [][ProgramNext]_vars

\* Lux::run from Parser::new on, over every bounded `print e;`
ExprInit ==
    /\ pc = "parse"
    /\ scanner = NoScanner
    /\ \E tokens \in ExprPrograms : parser = ParserNew(tokens, StdoutReporterDefault)
    /\ statements = <<>>
    /\ interpreter = InterpreterNew
    /\ stmtIdx = 0
    /\ result = NoResult
    /\ stdout = <<>>
    /\ runs = 1

ExprSpec == ExprInit /\ [][ProgramNext]_vars

\* Lux::run from Parser::new on, over every bounded parenthesized expression
ParenInit ==
    /\ pc = "parse"
    /\ scanner = NoScanner
    /\ \E tokens \in ParenPrograms : parser = ParserNew(tokens, StdoutReporterDefault)
    /\ statements = <<>>
    /\ interpreter = InterpreterNew
    /\ stmtIdx = 0
    /\ result = NoResult
    /\ stdout = <<>>
    /\ runs = 1

ParenSpec == ParenInit /\ [][ProgramNext]_vars

\* Lux::run from Parser::new on, over every `print l op r;`
EvalOrderInit ==
    /\ pc = "parse"
    /\ scanner = NoScanner
    /\ \E tokens \in EvalOrderPrograms : parser = ParserNew(tokens, StdoutReporterDefault)
    /\ statements = <<>>
    /\ interpreter = InterpreterNew
    /\ stmtIdx = 0
    /\ result = NoResult
    /\ stdout = <<>>
    /\ runs = 1

EvalOrderSpec == EvalOrderInit /\ [][ProgramNext]_vars

\* Scanner::scan_tokens over every bounded text of operator characters
OperatorInit ==
    /\ pc = "scan"
    /\ \E text \in TextsOver(OperatorChars) :
         scanner = ScannerNew(Utf8Text(text), StdoutReporterDefault)
    /\ parser = NoParser
    /\ statements = <<>>
    /\ interpreter = InterpreterNew
    /\ stmtIdx = 0
    /\ result = NoResult
    /\ stdout = <<>>
    /\ runs = 1

OperatorSpec == OperatorInit /\ [][ScanNext]_vars

\* Scanner::scan_tokens over every bounded text with slashes and newlines
CommentInit ==
    /\ pc = "scan"
    /\ \E text \in TextsOver(CommentChars) :
         scanner = ScannerNew(Utf8Text(text), StdoutReporterDefault)
    /\ parser = NoParser
    /\ statements = <<>>
    /\ interpreter = InterpreterNew
    /\ stmtIdx = 0
    /\ result = NoResult
    /\ stdout = <<>>
    /\ runs = 1

CommentSpec == CommentInit /\ [][ScanNext]_vars

\* Scanner::scan_tokens over every bounded text of digits and dots
NumberInit ==
    /\ pc = "scan"
    /\ \E text \in NumberTexts : scanner = ScannerNew(Utf8Text(text), StdoutReporterDefault)
    /\ parser = NoParser
    /\ statements = <<>>
    /\ interpreter = InterpreterNew
    /\ stmtIdx = 0
    /\ result = NoResult
    /\ stdout = <<>>
    /\ runs = 1

NumberSpec == NumberInit /\ [][ScanNext]_vars

\* Scanner::scan_tokens over every bounded text of words
WordInit ==
    /\ pc = "scan"
    /\ \E text \in WordTexts : scanner = ScannerNew(Utf8Text(text), StdoutReporterDefault)
    /\ parser = NoParser
    /\ statements = <<>>
    /\ interpreter = InterpreterNew
    /\ stmtIdx = 0
    /\ result = NoResult
    /\ stdout = <<>>
    /\ runs = 1

WordSpec == WordInit /\ [][ScanNext]_vars

\* Lux::run from Parser::new on, over every bounded program of DeclFrags
DeclInit ==
    /\ pc = "parse"
    /\ scanner = NoScanner
    /\ \E tokens \in DeclPrograms : parser = ParserNew(tokens, StdoutReporterDefault)
    /\ statements = <<>>
    /\ interpreter = InterpreterNew
    /\ stmtIdx = 0
    /\ result = NoResult
    /\ stdout = <<>>
    /\ runs = 1

DeclSpec == DeclInit /\ [][ProgramNext]_vars

\* Parser::parse over every bounded token vector
ParseInit ==
    /\ pc = "parse"
    /\ scanner = NoScanner
    /\ \E tokens \in TokenVectors : parser = ParserNew(tokens, StdoutReporterDefault)
    /\ statements = <<>>
    /\ interpreter = InterpreterNew
    /\ stmtIdx = 0
    /\ result = NoResult
    /\ stdout = <<>>
    /\ runs = 1

ParseNext == ParseStep \/ ParseEnd

ParseSpec == ParseInit /\ [][ParseNext]_vars

\* Lux::run over every bounded source text `print <literal>;`
LiteralInit ==
    /\ pc = "scan"
    /\ \E text \in LiteralSources :
         scanner = ScannerNew(Utf8Text(text), StdoutReporterDefault)
    /\ parser = NoParser
    /\ statements = <<>>
    /\ interpreter = InterpreterNew
    /\ stmtIdx = 0
    /\ result = NoResult
    /\ stdout = <<>>
    /\ runs = 1

LiteralNext == ScanStep \/ ScanEnd \/ ParseStep \/ ParseEnd \/ Execute \/ InterpretEnd

LiteralSpec == LiteralInit /\ [][LiteralNext]_vars

-----------------------------------------------------------------------------
(* Helpers of the properties *)

Last(seq) == seq[Len(seq)]

\* the lines of stdout written by print statements
RECURSIVE PrintLines(_)
PrintLines(out) ==
    IF out = <<>> THEN <<>>
    ELSE IF Head(out).kind = "print" THEN <<Head(out)>> \o PrintLines(Tail(out))
    ELSE PrintLines(Tail(out))

\* the statements stmts[1..n] executed in order from interp, stopping at the first Err
RECURSIVE Replay(_, _, _)
Replay(stmts, n, interp) ==
    IF n = 0 THEN XOk(interp, <<>>)
    ELSE LET before == Replay(stmts, n - 1, interp)
         IN  IF ~before.ok THEN before
             ELSE LET r == execute(before.interpreter, stmts[n])
                  IN  IF ~r.ok THEN r ELSE XOk(r.interpreter, before.printed \o r.printed)

\* a statement parsed on its own, and executed on its own in a new Interpreter
ParsedAlone(frag) == declaration(ParserNew(frag \o <<tkEOF>>, StdoutReporterDefault)).stmt
RunAlone(frag) == execute(InterpreterNew, ParsedAlone(frag))

NewlinesIn(bytes) == Cardinality({i \in 1..Len(bytes) : bytes[i] = NEWLINE})

\* the character of the source text that starts at byte i (0-based)
CharOfText(s, i) ==
    IF s.source[i + 1] = "xC3" /\ i + 2 <= Len(s.source) /\ s.source[i + 2] = "xA9"
    THEN EACUTE ELSE s.source[i + 1]

\* the characters that start a token or are skipped as whitespace
TokenChars ==
    {"(", ")", "{", "}", ",", ".", "-", "+", ";", "*", "!", "=", "<", ">", "/",
     QUOTE, " ", TAB, CR, NEWLINE, "_"} \cup Digits \cup Letters

\* the scanner is about to scan a character that starts no token
AtBadCharacter ==
    /\ pc = "scan"
    /\ ~ScannerIsAtEnd(scanner)
    /\ scanner.source[scanner.current + 1] # "xA9"
    /\ CharOfText(scanner, scanner.current) \notin TokenChars

\* the scanner is about to scan an opening quote that has no closing quote
AtUnterminatedString ==
    /\ pc = "scan"
    /\ ~ScannerIsAtEnd(scanner)
    /\ scanner.source[scanner.current + 1] = QUOTE
    /\ \A i \in (scanner.current + 2)..Len(scanner.source) : scanner.source[i] # QUOTE

\* the statement on which interpret returned its Err
FailedStmt == statements[stmtIdx + 1]

\* interpret returned the Err of a print of the variable `name`, which is undefined
FailedOnUndefined(name) ==
    /\ pc = "idle"
    /\ result.state = "Err"
    /\ stmtIdx < Len(statements)
    /\ FailedStmt.stmt = "Print"
    /\ FailedStmt.expr = ExprVariable(name)
    /\ name.lexeme \notin Keys(interpreter.environment)

-----------------------------------------------------------------------------
(* Helpers of the claims about expressions *)

\* the tier of a binary operator, loosest first
Tier(operator) ==
    CASE operator.token_type.kind \in {"BangEqual", "EqualEqual"} -> 1
      [] operator.token_type.kind \in {"Less", "LessEqual", "Greater", "GreaterEqual"} -> 2
      [] operator.token_type.kind \in {"Minus", "Plus"} -> 3
      [] operator.token_type.kind \in {"Slash", "Star"} -> 4

IsLiteralToken(token) ==
    token.token_type.kind \in {"Nil", "True", "False", "Number", "String"}

\* the runtime value a literal token denotes
ValueOf(token) ==
    CASE token.token_type.kind = "Nil" -> ValNil
      [] token.token_type.kind = "True" -> ValBool(TRUE)
      [] token.token_type.kind = "False" -> ValBool(FALSE)
      [] token.token_type.kind = "Number" -> ValNumber(token.token_type.num)
      [] token.token_type.kind = "String" -> ValString(token.token_type.str)

Lit(token) == ExprLiteral(ValueOf(token))

PrintedLine(value) == [kind |-> "print", value |-> value, message |-> ""]
ErrorLine(message) == [kind |-> "error in interpreter", value |-> ValNil, message |-> message]

\* the run of the program `print e;` has been parsed / has ended
Parsed(e) == pc \in {"interpret", "idle"} /\ parser.tokens = PrintOf(e)
Ended(e) == pc = "idle" /\ parser.tokens = PrintOf(e)

\* the run printed exactly the value v / raised a RuntimeError and printed no value
Printed(v) == result = ResultOk /\ stdout = <<PrintedLine(v)>>
Raised == result.state = "Err" /\ stdout = <<ErrorLine(result.message)>>

\* the left-deep tree of the chain `1 op1 2 op2 3 ...`
RECURSIVE LeftDeep(_)
LeftDeep(ops) ==
    IF ops = <<>> THEN Lit(ChainOperand(1))
    ELSE ExprBinary(LeftDeep(SubSeq(ops, 1, Len(ops) - 1)), ops[Len(ops)],
                    Lit(ChainOperand(Len(ops) + 1)))

\* the operators of a token vector `print 1 op1 2 op2 3 ... ;`
ChainOps(tokens) == [i \in 1..((Len(tokens) - 4) \div 2) |-> tokens[2 * i + 2]]

\* the program parsed is a chain of n binary operators between the numbers 1, 2, 3, ...
ParsedChain(n) ==
    /\ pc \in {"interpret", "idle"}
    /\ Len(parser.tokens) = 2 * n + 4
    /\ \A i \in 1..n : parser.tokens[2 * i + 2] \in BinaryOperatorTokens
    /\ parser.tokens = PrintOf(Chain(ChainOps(parser.tokens)))

\* the program is `print a op b;` for literal tokens a and b and a binary operator op
BinaryProgram ==
    /\ Len(parser.tokens) = 6
    /\ IsLiteralToken(parser.tokens[2])
    /\ parser.tokens[3] \in BinaryOperatorTokens
    /\ IsLiteralToken(parser.tokens[4])
    /\ parser.tokens = PrintOf(<<parser.tokens[2], parser.tokens[3], parser.tokens[4]>>)

\* its operator and the values of its operands
OperatorKind == parser.tokens[3].token_type.kind
LeftValue == ValueOf(parser.tokens[2])
RightValue == ValueOf(parser.tokens[4])

\* two values of the same variant with the same payload
SameValue(l, r) ==
    /\ l.kind = r.kind
    /\ l.kind = "Number" => l.num = r.num
    /\ l.kind = "String" => l.str = r.str
    /\ l.kind = "Bool" => l.bool = r.bool

\* the falsy values: Nil and Bool false
Falsy(v) == v = ValNil \/ v = ValBool(FALSE)

\* exact arithmetic on the numbers of literal tokens (finite, denominator not 0)
Sum(a, b) == Rat(a.n * b.d + b.n * a.d, a.d * b.d)
Difference(a, b) == Rat(a.n * b.d - b.n * a.d, a.d * b.d)
Product(a, b) == Rat(a.n * b.n, a.d * b.d)
Below(a, b) == a.n * b.d < b.n * a.d

\* the run printed exactly one value, a Number
PrintedNumber ==
    /\ result = ResultOk
    /\ Len(stdout) = 1
    /\ stdout[1].kind = "print"
    /\ stdout[1].value.kind = "Number"

\* what an arithmetic or comparison operator returns on two Numbers
NumericResult(kind, a, b) ==
    CASE kind = "Minus" -> Printed(ValNumber(Difference(a, b)))
      [] kind = "Star" -> Printed(ValNumber(Product(a, b)))
      [] kind = "Slash" ->
           IF b.n # 0 THEN Printed(ValNumber(Rat(a.n * b.d, a.d * b.n))) ELSE PrintedNumber
      [] kind = "Less" -> Printed(ValBool(Below(a, b)))
      [] kind = "Greater" -> Printed(ValBool(Below(b, a)))
      [] kind = "LessEqual" -> Printed(ValBool(~Below(b, a)))
      [] kind = "GreaterEqual" -> Printed(ValBool(~Below(a, b)))

\* the literal of the source text `print <literal>;`, as bytes
LiteralOfSource(source) == SubSeq(source, 7, Len(source) - 1)

\* the number a string of decimal digits denotes
DigitOf(c) ==
    CASE c = "0" -> 0 [] c = "1" -> 1 [] c = "2" -> 2 [] c = "3" -> 3 [] c = "4" -> 4
      [] c = "5" -> 5 [] c = "6" -> 6 [] c = "7" -> 7 [] c = "8" -> 8 [] c = "9" -> 9

RECURSIVE Numeral(_)
Numeral(ds) ==
    IF ds = <<>> THEN 0 ELSE DigitOf(Head(ds)) * Pow10(Len(ds) - 1) + Numeral(Tail(ds))

\* the semantic value of a well-formed literal: the text between the quotes of
\* a string, the number that the digits of a number denote
SemanticValue(literal) ==
    IF Head(literal) = QUOTE
    THEN ValString(SubSeq(literal, 2, Len(literal) - 1))
    ELSE LET dots == {i \in 1..Len(literal) : literal[i] = "."}
         IN  IF dots = {} THEN ValNumber(Rat(Numeral(literal), 1))
             ELSE LET p == CHOOSE i \in dots : TRUE
                      k == Len(literal) - p
                  IN  ValNumber(Sum(Rat(Numeral(SubSeq(literal, 1, p - 1)), 1),
                                    Rat(Numeral(SubSeq(literal, p + 1, Len(literal))),
                                        Pow10(k))))

\* the number of Grouping nodes around the innermost expression
RECURSIVE GroupingDepth(_)
GroupingDepth(e) == IF e.node = "Grouping" THEN 1 + GroupingDepth(e.expr) ELSE 0

\* the literal 1 inside k Groupings
RECURSIVE Nest(_)
Nest(k) == IF k = 0 THEN Lit(tkOne) ELSE ExprGrouping(Nest(k - 1))

MissingParen == <<"Parsing error: expecting ')'">>

\* the messages the Reporter of the parser has printed
Reported == {parser.reporter.printed[i].message : i \in 1..Len(parser.reporter.printed)}

\* the Result of the production that Parser::declaration tries at the cursor of p
Attempt(p) ==
    IF match_token_types(p.tokens, p.current, {"Var"})
    THEN var_declaration(p.tokens, ParserAdvance(p.tokens, p.current))
    ELSE statement(p.tokens, p.current)

\* the next declaration attempt fails
AttemptFails ==
    /\ pc = "parse"
    /\ ~ParserIsAtEnd(parser.tokens, parser.current)
    /\ ~Attempt(parser).ok

\* where parsing resumes when tokens are discarded from cur on only until a `;`
\* has been discarded, the next token is a statement keyword, or the end of input
RECURSIVE ResumePoint(_, _)
ResumePoint(tokens, cur) ==
    IF ParserIsAtEnd(tokens, cur) THEN cur
    ELSE IF ParserPeek(tokens, cur).token_type.kind \in SyncKeywords THEN cur
    ELSE IF ParserPeek(tokens, cur).token_type.kind = "Semicolon" THEN cur + 1
    ELSE ResumePoint(tokens, cur + 1)

\* the error an operand of EvalOperands raises when it is evaluated ("" for none)
OperandError(operand) ==
    CASE operand = <<tkX>> -> "undefined variabel"
      [] operand = <<tkMinus, tkStr>> -> "negation can only act on a number"
      [] OTHER -> ""

OperandErrors == {"undefined variabel", "negation can only act on a number"}

\* the kinds and the lexemes of the tokens scanned, without the EndOfFile token
ScannedKinds ==
    [i \in 1..(Len(scanner.tokens) - 1) |-> scanner.tokens[i].token_type.kind]
ScannedLexemes == [i \in 1..(Len(scanner.tokens) - 1) |-> scanner.tokens[i].lexeme]

\* scan_tokens has returned
Scanned == pc = "parse"

OneCharKind(c) ==
    CASE c = "!" -> "Bang" [] c = "=" -> "Equal" [] c = "<" -> "Less" [] c = ">" -> "Greater"

TwoCharKind(c) ==
    CASE c = "!" -> "BangEqual" [] c = "=" -> "EqualEqual"
      [] c = "<" -> "LessEqual" [] c = ">" -> "GreaterEqual"

\* maximal munch on a text of `!`, `=`, `<`, `>` and spaces: the lexemes, left to right
RECURSIVE Munch(_)
Munch(text) ==
    IF text = <<>> THEN <<>>
    ELSE IF Head(text) = " " THEN Munch(Tail(text))
    ELSE IF Len(text) >= 2 /\ text[2] = "="
    THEN <<SubSeq(text, 1, 2)>> \o Munch(SubSeq(text, 3, Len(text)))
    ELSE <<SubSeq(text, 1, 1)>> \o Munch(Tail(text))

MunchKind(lexeme) ==
    IF Len(lexeme) = 2 THEN TwoCharKind(lexeme[1]) ELSE OneCharKind(lexeme[1])

\* the source text without its line comments: outside a string literal a `//`
\* and what follows it up to, not including, the next newline is removed
RECURSIVE StripComments(_, _)
StripComments(text, mode) ==
    IF text = <<>> THEN <<>>
    ELSE CASE mode = "comment" ->
                IF Head(text) = NEWLINE THEN StripComments(text, "code")
                ELSE StripComments(Tail(text), "comment")
           [] mode = "string" ->
                <<Head(text)>> \o
                    StripComments(Tail(text), IF Head(text) = QUOTE THEN "code" ELSE "string")
           [] mode = "code" ->
                IF Len(text) >= 2 /\ text[1] = "/" /\ text[2] = "/"
                THEN StripComments(SubSeq(text, 3, Len(text)), "comment")
                ELSE <<Head(text)>> \o
                         StripComments(Tail(text), IF Head(text) = QUOTE THEN "string" ELSE "code")

\* the scan of the source of the current scanner with its comments removed
ScanWithoutComments ==
    ScanAll(ScannerNew(StripComments(scanner.source, "code"), StdoutReporterDefault))

\* the length of the run of digits at the head of a text
RECURSIVE DigitRun(_)
DigitRun(text) ==
    IF text # <<>> /\ Head(text) \in Digits THEN 1 + DigitRun(Tail(text)) ELSE 0

\* the length of the longest prefix of the form digits or digits `.` digits
NumberPrefix(text) ==
    LET w == DigitRun(text)
        f == IF Len(text) > w /\ text[w + 1] = "."
             THEN DigitRun(SubSeq(text, w + 2, Len(text))) ELSE 0
    IN  IF w > 0 /\ f > 0 THEN w + 1 + f ELSE w

\* the lexemes of a text of digits and dots: longest numbers, and single dots
RECURSIVE NumberLexemes(_)
NumberLexemes(text) ==
    IF text = <<>> THEN <<>>
    ELSE LET k == IF Head(text) = "." THEN 1 ELSE NumberPrefix(text)
         IN  <<SubSeq(text, 1, k)>> \o NumberLexemes(SubSeq(text, k + 1, Len(text)))

\* the words of a text of words and single spaces
RECURSIVE SplitWords(_, _)
SplitWords(text, word) ==
    IF text = <<>> THEN (IF word = <<>> THEN <<>> ELSE <<word>>)
    ELSE IF Head(text) = " "
    THEN (IF word = <<>> THEN <<>> ELSE <<word>>) \o SplitWords(Tail(text), <<>>)
    ELSE SplitWords(Tail(text), Append(word, Head(text)))

\* the kind of the token of a word: the kind of the keyword it is, or Identifier
WordKind(word) ==
    IF word \in Keywords THEN (CHOOSE kw \in KeywordTable : kw[1] = word)[2]
    ELSE "Identifier"

\* the cursor at which Parser::advance, called at cur, reads previous (parser.rs:69)
PreviousReadAt(tokens, cur) == ParserAdvance(tokens, cur)

\* the positions (0-based) of the EndOfFile tokens of a token vector
EndOfFileAt(tokens) == {i \in 0..(Len(tokens) - 1) : ParserIsAtEnd(tokens, i)}

\* the entries of an Environment for the names other than name
OtherEntries(env, name) == {e \in env.values : e[1] # name}

-----------------------------------------------------------------------------
(* The claims *)

\* C1: a program whose first statement is malformed and whose second statement
\* is valid reports exactly one ParseError, keeps the second statement in the
\* parsed program and executes it correctly.
C1_ParserRecovers ==
    \A m \in MalformedFrags, v \in ValidFrags :
        (pc = "idle" /\ parser.tokens = m \o v \o <<tkEOF>>) =>
            /\ Len(parser.reporter.printed) = 1
            /\ \E i \in 1..Len(statements) : statements[i] = ParsedAlone(v)
            /\ interpreter = RunAlone(v).interpreter
            /\ PrintLines(stdout) = RunAlone(v).printed
            /\ result = IF RunAlone(v).ok THEN ResultOk ELSE ResultErr(RunAlone(v).message)

\* C2: when interpret stops at the first statement that raises a RuntimeError,
\* every statement before it has taken full effect (its output printed in
\* order, its variable defined), no later statement was executed, nothing is
\* rolled back and interpret returns that error.
C2_FirstErrorAborts ==
    (pc \in {"interpret", "idle"}) =>
        LET before == Replay(statements, stmtIdx, InterpreterNew)
        IN  /\ before.ok
            /\ interpreter = before.interpreter
            /\ PrintLines(stdout) = before.printed
            /\ pc = "idle" =>
                 IF stmtIdx < Len(statements)
                 THEN LET r == execute(interpreter, FailedStmt)
                      IN  ~r.ok /\ result = ResultErr(r.message)
                 ELSE result = ResultOk

\* a run that failed at its second statement of three, after a print statement
C2_Witness ==
    /\ pc = "idle"
    /\ result.state = "Err"
    /\ stmtIdx = 1
    /\ Len(statements) = 3
    /\ PrintLines(stdout) # <<>>
    /\ Last(stdout).kind = "error in interpreter"

\* C3: a run starts from the Environment the last run left, also after a run
\* that reported an error; no variable is ever lost between or inside runs.
C3_EnvironmentPersists ==
    [][/\ (pc \in {"idle", "scan", "parse"} => interpreter' = interpreter)
       /\ Keys(interpreter.environment) \subseteq Keys(interpreter'.environment)]_vars

\* the second run starts with a variable defined by a first run that failed
C3_Witness ==
    /\ runs = 2
    /\ pc = "scan"
    /\ result.state = "Err"
    /\ Keys(interpreter.environment) # {}

\* C4: in interactive mode no LexError, ParseError or RuntimeError ends the
\* session: the run that reported it returns to the prompt.
C4_SessionSurvivesErrors == ~(pc = "panicked" /\ scanner.reporter.had_error)

\* C5: for every source text scan_tokens produces a token sequence whose last
\* token is the end-of-input token and which holds no other end-of-input
\* token; the empty source yields exactly that one token.
C5_EndOfFileTerminates ==
    /\ pc # "panicked"
    /\ pc = "parse" =>
         /\ scanner.tokens # <<>>
         /\ Last(scanner.tokens).token_type.kind = "EndOfFile"
         /\ \A i \in 1..(Len(scanner.tokens) - 1) :
                scanner.tokens[i].token_type.kind # "EndOfFile"
         /\ scanner.source = <<>> => Len(scanner.tokens) = 1

\* C6: when the source ends inside a string literal the scanner reports one
\* LexError "string not closed", emits a String token holding the text after
\* the opening quote and goes on to the end of input; the scan is not aborted.
C6_UnterminatedStringRecovered ==
    [][AtUnterminatedString =>
          /\ pc' = "scan"
          /\ scanner'.reporter.printed =
                 Append(scanner.reporter.printed,
                        [line |-> scanner'.line, error_where |-> <<"">>,
                         message |-> <<"string not closed">>])
          /\ Len(scanner'.tokens) = Len(scanner.tokens) + 1
          /\ Last(scanner'.tokens).token_type =
                 TTString(SubSeq(scanner.source, scanner.current + 2, Len(scanner.source)))
          /\ scanner'.current = Len(scanner.source)]_vars

\* C7: the line counter starts at 0 and counts exactly the newline characters
\* consumed, also inside string literals, and nothing else; the line of the
\* end-of-input token is the number of newlines of the source.
C7_LineCountsNewlines ==
    (pc \in {"scan", "parse"}) =>
        /\ scanner.line = NewlinesIn(SubSeq(scanner.source, 1, scanner.current))
        /\ pc = "parse" => Last(scanner.tokens).line = NewlinesIn(scanner.source)

\* C8: for a character that starts no token the scanner reports exactly one
\* LexError naming that character, emits no token and continues with the next
\* character.
C8_BadCharacterSkipped ==
    [][AtBadCharacter =>
          LET ch == CharOfText(scanner, scanner.current)
          IN  /\ pc' = "scan"
              /\ scanner'.reporter.printed =
                     Append(scanner.reporter.printed,
                            [line |-> scanner.line, error_where |-> <<"">>,
                             message |-> <<"encountered unexpected character: ", ch>>])
              /\ scanner'.tokens = scanner.tokens
              /\ scanner'.current = scanner.current + Len(Utf8(ch))]_vars

\* C9: the RuntimeError of a reference to an undefined variable names the
\* identifier: the error reported for one undefined name differs from the
\* error a reference to another undefined name raises.
C9_UndefinedNameReported ==
    \A name \in {tkX, tkY} : \A other \in {tkX, tkY} :
        (/\ FailedOnUndefined(name)
         /\ other.lexeme # name.lexeme
         /\ other.lexeme \notin Keys(interpreter.environment)) =>
            evaluate(interpreter, ExprVariable(other)).message # result.message

\* C10: a variable declaration never fails on an existing name and overwrites:
\* afterwards get(name) is the value of the declaration (Nil without an
\* initializer) and every other name keeps its value;
\* `var x = 1; var x = 2; print x;` prints 2.
C10_DefineOverwrites ==
    /\ [][(/\ pc = "interpret"
           /\ stmtIdx < Len(statements)
           /\ FailedStmt.stmt = "Var"
           /\ (FailedStmt.initializer = <<>>
               \/ evaluate(interpreter, FailedStmt.initializer[1]).ok)) =>
             LET env == interpreter.environment
                 env2 == interpreter'.environment
                 value == IF FailedStmt.initializer = <<>> THEN ValNil
                          ELSE evaluate(interpreter, FailedStmt.initializer[1]).value
             IN  /\ pc' = "interpret"
                 /\ stmtIdx' = stmtIdx + 1
                 /\ get(env2, FailedStmt.name) = EOk(value)
                 /\ Keys(env2) = Keys(env) \cup {FailedStmt.name.lexeme}
                 /\ \A k \in Keys(env) \ {FailedStmt.name.lexeme} :
                        Lookup(env2, k) = Lookup(env, k)]_vars
    /\ []((/\ pc = "idle"
           /\ parser.tokens = <<tkVar, tkX, tkEqual, tkOne, tkSemi>>
                              \o <<tkVar, tkX, tkEqual, tkTwo, tkSemi>>
                              \o <<tkPrint, tkX, tkSemi, tkEOF>>) =>
             /\ result = ResultOk
             /\ stdout = <<[kind |-> "print", value |-> ValNumber(Rat(2, 1)), message |-> ""]>>)

\* x was declared, copied to y and declared again: x is 2 and y is still 1
C10_Witness ==
    /\ pc = "interpret"
    /\ stmtIdx = 3
    /\ interpreter.environment.values =
           {<<<<"x">>, ValNumber(Rat(2, 1))>>, <<<<"y">>, ValNumber(Rat(1, 1))>>}

C13_EqualityNeverCoerces ==
    /\ (pc = "idle" /\ BinaryProgram /\ OperatorKind = "EqualEqual") =>
          Printed(ValBool(SameValue(LeftValue, RightValue)))
    /\ (pc = "idle" /\ BinaryProgram /\ OperatorKind = "BangEqual") =>
          Printed(ValBool(~SameValue(LeftValue, RightValue)))
    /\ Ended(<<tkOne, tkEqualEqual, tkStrOne>>) => Printed(ValBool(FALSE))
    /\ Ended(<<tkZero, tkEqualEqual, tkFalse>>) => Printed(ValBool(FALSE))
    /\ Ended(<<tkZero, tkSlash, tkZero, tkEqualEqual, tkZero, tkSlash, tkZero>>) =>
          Printed(ValBool(FALSE))
    /\ Ended(<<tkZero, tkSlash, tkZero, tkBangEqual, tkZero, tkSlash, tkZero>>) =>
          Printed(ValBool(TRUE))

\* `0 != false` was evaluated and printed true
C13_Witness ==
    /\ Ended(<<tkZero, tkBangEqual, tkFalse>>)
    /\ Printed(ValBool(TRUE))

\* C14: unary `!` raises no error on any value: `!v` is true exactly for Nil
\* and Bool false and false for every other value, the number 0 and the empty
\* string included; `!!v` is the truthiness of v.
C14_BangIsTruthiness ==
    /\ \A a \in OperandTokens :
          /\ Ended(<<tkBang, a>>) => Printed(ValBool(Falsy(ValueOf(a))))
          /\ Ended(<<tkBang, tkBang, a>>) => Printed(ValBool(~Falsy(ValueOf(a))))
    /\ Ended(<<tkBang, tkNil>>) => Printed(ValBool(TRUE))
    /\ Ended(<<tkBang, tkZero>>) => Printed(ValBool(FALSE))
    /\ Ended(<<tkBang, tkFalse>>) => Printed(ValBool(TRUE))
    /\ Ended(<<tkBang, tkEmptyStr>>) => Printed(ValBool(FALSE))

\* `!!0` was evaluated and printed true
C14_Witness ==
    /\ Ended(<<tkBang, tkBang, tkZero>>)
    /\ Printed(ValBool(TRUE))

\* C15: binary `+` returns the sum of two Numbers and the concatenation, left
\* text first, of two Strings; on every other combination of operand variants
\* it raises a RuntimeError and yields no value (`"s" + "t"` is "st",
\* `1 + "s"` and `"s" + 1` raise).
C15_PlusAddsOrConcatenates ==
    /\ (pc = "idle" /\ BinaryProgram /\ OperatorKind = "Plus") =>
          IF LeftValue.kind = "Number" /\ RightValue.kind = "Number"
          THEN Printed(ValNumber(Sum(LeftValue.num, RightValue.num)))
          ELSE IF LeftValue.kind = "String" /\ RightValue.kind = "String"
          THEN Printed(ValString(LeftValue.str \o RightValue.str))
          ELSE Raised
    /\ Ended(<<tkStr, tkPlus, tkStrT>>) => Printed(ValString(<<"s", "t">>))
    /\ Ended(<<tkOne, tkPlus, tkStr>>) => Raised
    /\ Ended(<<tkStr, tkPlus, tkOne>>) => Raised

\* `1 + "s"` was evaluated: the run raised an error and printed no value
C15_Witness ==
    /\ Ended(<<tkOne, tkPlus, tkStr>>)
    /\ Raised
    /\ stmtIdx = 0

\* C16: binary `-`, `*`, `/`, `<`, `>`, `<=`, `>=` and unary `-` give a result
\* only on Numbers (a Number for the arithmetic operators, a Bool for the
\* comparisons); with a String, a Bool or Nil on either side the evaluation
\* raises a RuntimeError and yields no value.
C16_NumericOperatorsNeedNumbers ==
    /\ (/\ pc = "idle"
        /\ BinaryProgram
        /\ OperatorKind \in {"Minus", "Star", "Slash", "Less", "Greater",
                             "LessEqual", "GreaterEqual"}) =>
          IF LeftValue.kind = "Number" /\ RightValue.kind = "Number"
          THEN NumericResult(OperatorKind, LeftValue.num, RightValue.num)
          ELSE Raised
    /\ \A a \in OperandTokens :
          /\ Ended(<<tkMinus, a>>) =>
                IF ValueOf(a).kind = "Number"
                THEN Printed(ValNumber(Difference(Rat(0, 1), ValueOf(a).num)))
                ELSE Raised
          /\ Ended(<<tkMinus, tkMinus, a>>) =>
                IF ValueOf(a).kind = "Number" THEN Printed(ValueOf(a)) ELSE Raised

\* `1 < true` was evaluated: the run raised an error and printed no value
C16_Witness ==
    /\ Ended(<<tkOne, tkLess, tkTrue>>)
    /\ Raised
    /\ stmtIdx = 0

\* C17: round trip of literals: a well-formed number or string literal that is
\* scanned, parsed as a bare literal expression and evaluated gives its
\* semantic value: for a string exactly the text between the two quotes
\* (newlines kept, quotes excluded), for a number the value of its digits.
C17_LiteralRoundTrip ==
    /\ pc # "panicked"
    /\ pc \in {"interpret", "idle"} =>
          statements = <<StmtPrint(ExprLiteral(SemanticValue(LiteralOfSource(scanner.source))))>>
    /\ pc = "idle" => Printed(SemanticValue(LiteralOfSource(scanner.source)))

\* the string literal of a newline and U+00E9 was evaluated to these two characters
C17_Witness ==
    /\ pc = "idle"
    /\ scanner.source = Utf8Text(W_print \o SP \o <<QUOTE, NEWLINE, EACUTE, QUOTE, ";">>)
    /\ Printed(ValString(Utf8Text(<<NEWLINE, EACUTE>>)))

\* C18: every error is delivered to the Reporter: a RuntimeError raised
\* during a run is reported through the Reporter, as lex errors and parse
\* errors are; no error kind bypasses it.
C18_RuntimeErrorsReported ==
    (pc = "idle" /\ result.state = "Err") =>
        /\ parser.reporter.had_error
        /\ \E i \in 1..Len(parser.reporter.printed) :
               parser.reporter.printed[i].message = <<result.message>>

\* C19: a Grouping is produced only for a `(` that has its own `)`: on
\* `(`^k 1 `)`^j the expression parsed never has more Groupings than there are
\* `)` tokens; with k = j and a `;` the statement is the literal inside k
\* Groupings and nothing is reported; with more `(` than `)` (such as `((1)`)
\* no Grouping reaches the parse result and the missing-`)` ParseError is
\* the error reported.
C19_GroupingNeedsItsParen ==
    \A k \in 0..MaxDepth, j \in 0..MaxDepth, semi \in {<<>>, <<tkSemi>>} :
        (pc \in {"interpret", "idle"} /\ parser.tokens = Parens(k, j, semi)) =>
            /\ LET e == expression(parser.tokens, 0)
               IN  e.ok => GroupingDepth(e.value) <= j
            /\ (k = j /\ semi # <<>>) =>
                  statements = <<StmtExpr(Nest(k))>> /\ ~parser.reporter.had_error
            /\ k > j =>
                  /\ \A i \in 1..Len(statements) : statements[i] = nil_stub_stmt
                  /\ Reported = {MissingParen}

\* C20: when the token after the inner expression of a parenthesized
\* expression is not `)`, the ParseError carries exactly that token (the
\* end-of-input token when the input ended there) and the failed grouping
\* does not consume it.
C20_MissingParenNamesOffender ==
    /\ \A t \in IntruderTokens, rest \in {<<>>, <<tkSemi>>, <<tkRightParen, tkSemi>>} :
          (pc \in {"interpret", "idle"} /\ parser.tokens = Unclosed(t, rest)) =>
              /\ LET e == expression(parser.tokens, 0)
                 IN  ~e.ok /\ e.message = MissingParen[1] /\ e.token = t /\ e.current = 2
              /\ parser.reporter.printed # <<>>
              /\ parser.reporter.printed[1] =
                     [line |-> t.line, error_where |-> <<"at '">> \o t.lexeme \o <<"'">>,
                      message |-> MissingParen]
    /\ \A k \in 1..MaxDepth :
          (pc \in {"interpret", "idle"} /\ parser.tokens = Parens(k, 0, <<>>)) =>
              /\ LET e == expression(parser.tokens, 0)
                 IN  ~e.ok /\ e.message = MissingParen[1] /\ e.token = tkEOF /\ e.current = k + 1
              /\ parser.reporter.printed =
                     <<[line |-> tkEOF.line, error_where |-> <<" at end">>,
                        message |-> MissingParen]>>

\* C21: after a ParseError the parser discards tokens only until a `;` has
\* just been consumed, the next token is one of class, fun, var, for, if,
\* while, print, return, or the end of input, and resumes exactly there; when
\* the offending token is itself such a keyword nothing of the following
\* statement is discarded.
C21_ResumesAtNextStatement ==
    [][AttemptFails =>
          parser'.current = ResumePoint(parser.tokens, Attempt(parser).current)]_vars

\* C22: binary operands are evaluated left to right, both before the operator
\* is applied: when the left operand raises, its error is the result and the
\* right operand plays no part; when the left succeeds and the right raises,
\* the right operand's error is the result, also when the operator rejects
\* the type of the left value; the error of the operator itself arises only
\* when both operands evaluated successfully.
C22_OperandsLeftToRight ==
    \A l \in EvalOperands, op \in BinaryOperatorTokens, r \in EvalOperands :
        Ended(l \o <<op>> \o r) =>
            IF OperandError(l) # "" THEN Raised /\ result.message = OperandError(l)
            ELSE IF OperandError(r) # "" THEN Raised /\ result.message = OperandError(r)
            ELSE \/ result = ResultOk
                 \/ Raised /\ result.message \notin OperandErrors

\* `"s" - x`: the error is the one of the undefined x, not the one of `-` on a string
C22_Witness ==
    /\ Ended(<<tkStr, tkMinus, tkX>>)
    /\ Raised
    /\ result.message = "undefined variabel"

\* C23: maximal munch for operators: `!`, `=`, `<` or `>` immediately followed
\* by `=` is scanned as the one two-character token, otherwise as the
\* one-character token, with one character of lookahead: `===` is `==` then
\* `=`, and `!==` is `!=` then `=`.
C23_MaximalMunch ==
    Scanned =>
        /\ ScannedLexemes = Munch(scanner.source)
        /\ \A i \in 1..Len(ScannedLexemes) : ScannedKinds[i] = MunchKind(ScannedLexemes[i])
        /\ ~scanner.reporter.had_error
        /\ scanner.source = <<"=", "=", "=">> => ScannedKinds = <<"EqualEqual", "Equal">>
        /\ scanner.source = <<"!", "=", "=">> => ScannedKinds = <<"BangEqual", "Equal">>

\* `!==` was scanned as `!=` then `=`
C23_Witness ==
    /\ Scanned
    /\ scanner.source = <<"!", "=", "=">>
    /\ ScannedLexemes = <<(<<"!", "=">>), (<<"=">>)>>

\* C24: a line comment produces no token and hides its text: the tokens of a
\* source (kinds, lexemes, lines) and the errors reported are those of the
\* source with every `//` comment removed up to, not including, the next
\* newline; that newline is still counted, a comment that runs to the end of
\* input ends the scan cleanly, and a `/` not followed by `/` is a Slash token.
C24_CommentsAreHidden ==
    /\ pc = "panicked" => ScanWithoutComments.panicked
    /\ Scanned =>
          /\ ~ScanWithoutComments.panicked
          /\ scanner.tokens = ScanWithoutComments.tokens
          /\ scanner.reporter = ScanWithoutComments.reporter
          /\ scanner.source = <<"/", "/", "@">> =>
                scanner.tokens = <<Token(TT("EndOfFile"), <<>>, 0)>>
          /\ scanner.source = <<"/", "/", NEWLINE, "1">> =>
                /\ ScannedKinds = <<"Number">>
                /\ scanner.tokens[1].line = 1
          /\ scanner.source = <<"1", "/", "1">> => ScannedKinds = <<"Number", "Slash", "Number">>

\* `1//@` was scanned: one Number, and no error for the `@` inside the comment
C24_Witness ==
    /\ Scanned
    /\ scanner.source = <<"1", "/", "/", "@">>
    /\ ScannedKinds = <<"Number">>
    /\ ~scanner.reporter.had_error

\* C25: the lexeme of a Number token is the longest prefix of the form digits
\* or digits `.` digits, a `.` being included only when a digit follows it:
\* `1.` is Number then Dot, `1.2.3` is Number(1.2), Dot, Number(3), `.5` is
\* Dot then Number(5); no Number token starts or ends with `.`.
C25_NumberIsLongestPrefix ==
    Scanned =>
        /\ ScannedLexemes = NumberLexemes(scanner.source)
        /\ \A i \in 1..Len(ScannedLexemes) :
              LET lexeme == ScannedLexemes[i]
                  token_type == scanner.tokens[i].token_type
              IN  IF lexeme = <<".">> THEN token_type = TT("Dot")
                  ELSE /\ token_type = TTNumber(SemanticValue(lexeme).num)
                       /\ Head(lexeme) # "."
                       /\ Last(lexeme) # "."
        /\ scanner.source = <<"1", ".">> => ScannedKinds = <<"Number", "Dot">>
        /\ scanner.source = <<".", "5">> =>
              /\ ScannedKinds = <<"Dot", "Number">>
              /\ scanner.tokens[2].token_type.num = Rat(5, 1)
        /\ scanner.source = <<"1", ".", "2", ".", "3">> =>
              /\ ScannedKinds = <<"Number", "Dot", "Number">>
              /\ scanner.tokens[1].token_type.num = Rat(12, 10)
              /\ scanner.tokens[3].token_type.num = Rat(3, 1)

\* `1.2.3` was scanned as the number 1.2, a dot and the number 3
C25_Witness ==
    /\ Scanned
    /\ scanner.source = <<"1", ".", "2", ".", "3">>
    /\ ScannedLexemes = <<(<<"1", ".", "2">>), (<<".">>), (<<"3">>)>>

\* C26: an identifier token covers the longest run of letters, digits and
\* underscores that starts at a letter or an underscore, and has a keyword
\* kind exactly when its whole lexeme is one of the 16 keywords: `variable`,
\* `var1`, `printx` and `_print` are one Identifier token each.
C26_WholeWordKeywords ==
    Scanned =>
        /\ ScannedLexemes = SplitWords(scanner.source, <<>>)
        /\ \A i \in 1..Len(ScannedLexemes) : ScannedKinds[i] = WordKind(ScannedLexemes[i])
        /\ scanner.source \in {W_var \o <<"i", "a", "b", "l", "e">>, W_var \o <<"1">>,
                                W_print \o <<"x">>, <<"_">> \o W_print} =>
              ScannedKinds = <<"Identifier">>
        /\ scanner.source = W_print => scanner.tokens[1] = tkPrint

\* `printx` was scanned as one Identifier token
C26_Witness ==
    /\ Scanned
    /\ scanner.source = W_print \o <<"x">>
    /\ Len(scanner.tokens) = 2
    /\ scanner.tokens[1] = Tk("Identifier", W_print \o <<"x">>)

\* C27: a run that reports lex or parse errors is still interpreted: the scan
\* is never aborted, parse returns one statement per declaration attempt, a
\* failed attempt reports one ParseError and contributes one placeholder (an
\* expression statement of the literal nil) whose execution prints nothing,
\* raises nothing and leaves the Environment alone, and interpret executes the
\* statements in order, ending only after the last one or at a RuntimeError.
C27_ErrorsDoNotStopTheRun ==
    [][/\ pc = "scan" => pc' \in {"scan", "parse"}
       /\ (pc = "parse" /\ ~ParserIsAtEnd(parser.tokens, parser.current)) =>
             /\ pc' = "parse"
             /\ Len(statements') = Len(statements) + 1
             /\ SubSeq(statements', 1, Len(statements)) = statements
             /\ IF Attempt(parser).ok
                THEN /\ Last(statements') = Attempt(parser).value
                     /\ parser'.reporter = parser.reporter
                ELSE /\ Last(statements') = nil_stub_stmt
                     /\ Len(parser'.reporter.printed) = Len(parser.reporter.printed) + 1
       /\ (pc = "parse" /\ ParserIsAtEnd(parser.tokens, parser.current)) =>
             pc' = "interpret" /\ stmtIdx' = 0 /\ statements' = statements
       /\ (pc = "interpret" /\ stmtIdx < Len(statements)) =>
             IF FailedStmt = nil_stub_stmt \/ execute(interpreter, FailedStmt).ok
             THEN /\ pc' = "interpret"
                  /\ stmtIdx' = stmtIdx + 1
                  /\ FailedStmt = nil_stub_stmt =>
                        stdout' = stdout /\ interpreter' = interpreter /\ result' = result
             ELSE pc' = "idle" /\ result'.state = "Err"]_vars

\* C28: parse terminates on every token vector that ends with the EndOfFile
\* token: every declaration attempt, also one whose error is raised at its
\* first token, consumes at least one token or leaves the cursor on EndOfFile,
\* so that parse makes no more attempts than there are tokens before the
\* cursor; the cursor never passes the EndOfFile token, and previous is never
\* read while the cursor is 0.
C28_ParseTerminates ==
    /\ [][(pc = "parse" /\ statements' # statements) =>
            /\ \/ parser'.current > parser.current
               \/ ParserIsAtEnd(parser'.tokens, parser'.current)
            /\ PreviousReadAt(parser.tokens, parser.current) > 0
            /\ ~Attempt(parser).ok =>
                  /\ Attempt(parser).current >= parser.current
                  /\ PreviousReadAt(parser.tokens, Attempt(parser).current) > 0]_vars
    /\ [](/\ \A i \in EndOfFileAt(parser.tokens) : parser.current <= i
          /\ Len(statements) <= parser.current)

\* parse has ended on `) print 1 ;`, whose first attempt failed at its first token
C28_Witness ==
    /\ pc = "interpret"
    /\ parser.tokens = <<tkRightParen, tkPrint, tkOne, tkSemi, tkEOF>>
    /\ statements = <<nil_stub_stmt, ParsedAlone(<<tkPrint, tkOne, tkSemi>>)>>
    /\ Len(parser.reporter.printed) = 1

\* C29: only a variable declaration that succeeds changes the Environment,
\* and it changes the declared name only: print and expression statements
\* leave it unchanged whether they succeed or raise, and a declaration whose
\* initializer raises defines nothing and keeps an earlier value of its name;
\* `var x = 1; var x = x + "a";` leaves x equal to 1 and `var y = y;` leaves
\* y undefined.
C29_OnlyDeclarationsDefine ==
    /\ [][IF pc = "interpret" /\ stmtIdx < Len(statements) /\ FailedStmt.stmt = "Var"
             /\ pc' = "interpret"
          THEN /\ FailedStmt.name.lexeme \in Keys(interpreter'.environment)
               /\ OtherEntries(interpreter'.environment, FailedStmt.name.lexeme)
                    = OtherEntries(interpreter.environment, FailedStmt.name.lexeme)
          ELSE interpreter' = interpreter]_vars
    /\ [](/\ (pc = "idle" /\ parser.tokens = <<tkVar, tkX, tkEqual, tkOne, tkSemi,
                                                tkVar, tkX, tkEqual, tkX, tkPlus, tkStrA, tkSemi,
                                                tkEOF>>) =>
               /\ result.state = "Err"
               /\ interpreter.environment.values = {<<<<"x">>, ValNumber(Rat(1, 1))>>}
          /\ (pc = "idle" /\ parser.tokens = <<tkVar, tkY, tkEqual, tkY, tkSemi, tkEOF>>) =>
               /\ result.state = "Err"
               /\ Keys(interpreter.environment) = {})

\* `var x = 1; var x = x + "a";` has ended with the error of `+` and x is 1
C29_Witness ==
    /\ pc = "idle"
    /\ result.state = "Err"
    /\ stmtIdx = 1
    /\ FailedStmt.stmt = "Var"
    /\ FailedStmt.name = tkX
    /\ FailedStmt.initializer # <<>>
    /\ interpreter.environment.values = {<<<<"x">>, ValNumber(Rat(1, 1))>>}

=============================================================================
